---- MODULE Spec2Model ----
(***************************************************************************)
(* A model of the AliExpress affiliate bot core: the expiring cache        *)
(* (cache_manager.py), the affiliate client (aliexpress_client.py) and     *)
(* the short-link resolver (url_processor.py).                             *)
(*                                                                         *)
(* Python values are modelled as tagged records, so that None, strings,    *)
(* numbers, lists and dicts can be told apart the way isinstance(),        *)
(* truthiness and attribute lookup tell them apart in the code.  A dict    *)
(* is a function whose DOMAIN is its key set.                              *)
(***************************************************************************)
EXTENDS Integers, Sequences, FiniteSets, TLC

\* ------------------------------------------------------------------ bounds

\* The clock runs over 0..MaxTime.
MaxTime == 4
\* The time-to-live of every cache, in clock ticks (cache_expiry_days * 86400
\* seconds in the program; a configuration value, scaled down here).
expiry_seconds == 2
\* The longest target_urls list of one batch call.
MaxUrls == 3
\* The longest promotion_link list of one vendor response.
MaxPairs == 2

\* --------------------------------------------------------- Python values

None == [t |-> "null"]
JStr(s) == [t |-> "str", s |-> s]
JNum(n) == [t |-> "num", n |-> n]
JList(q) == [t |-> "list", items |-> q]
JDict(f) == [t |-> "dict", map |-> f]
EmptyDict == JDict(<<>>)

IsNone(j) == j.t = "null"
IsStr(j) == j.t = "str"
IsList(j) == j.t = "list"
IsDict(j) == j.t = "dict"

\* Python truthiness: None, "", 0, [] and {} are falsy.
Truthy(j) ==
    CASE j.t = "null" -> FALSE
      [] j.t = "str" -> j.s # ""
      [] j.t = "num" -> j.n # 0
      [] j.t = "list" -> j.items # <<>>
      [] j.t = "dict" -> DOMAIN j.map # {}
      [] OTHER -> TRUE

\* --------------------------------------------------------- CacheWithExpiry

\* The test of get: an entry is served while now - timestamp < expiry_seconds.
IsFresh_Inclusive(entry, t) == t - entry.timestamp <= expiry_seconds

IsFresh(entry, t) == t - entry.timestamp < expiry_seconds

\* The test of clear_expired: an entry is removed when now - t >= expiry_seconds.
IsExpired_Strict(entry, t) == t - entry.timestamp > expiry_seconds

IsExpired(entry, t) == t - entry.timestamp >= expiry_seconds

DictDel(d, key) == [x \in DOMAIN d \ {key} |-> d[x]]

DictPut(d, key, value) ==
    [x \in DOMAIN d \cup {key} |-> IF x = key THEN value ELSE d[x]]

\* get(key) at instant t: the returned item (None on a miss) and the dict it leaves.
CacheGet_KeepExpired(c, key, t) ==
    [ret |-> IF key \in DOMAIN c /\ IsFresh(c[key], t) THEN c[key].item ELSE None,
     cache |-> c]

CacheGet_Sliding(c, key, t) ==
    IF key \in DOMAIN c
    THEN IF IsFresh(c[key], t)
         THEN [ret |-> c[key].item,
               cache |-> [c EXCEPT ![key].timestamp = t]]
         ELSE [ret |-> None, cache |-> DictDel(c, key)]
    ELSE [ret |-> None, cache |-> c]

CacheGet(c, key, t) ==
    IF key \in DOMAIN c
    THEN IF IsFresh(c[key], t)
         THEN [ret |-> c[key].item, cache |-> c]
         ELSE [ret |-> None, cache |-> DictDel(c, key)]
    ELSE [ret |-> None, cache |-> c]

\* set(key, value) at instant t.
CacheSet_KeepFirstTimestamp(c, key, value, t) ==
    DictPut(c, key, [item |-> value,
                     timestamp |-> IF key \in DOMAIN c THEN c[key].timestamp ELSE t])

CacheSet(c, key, value, t) == DictPut(c, key, [item |-> value, timestamp |-> t])

\* clear_expired() at instant t: the count of removed entries and the dict it leaves.
CacheClearExpired_CountOnly(c, t) ==
    [ret |-> Cardinality({k \in DOMAIN c : IsExpired(c[k], t)}), cache |-> c]

CacheClearExpired(c, t) ==
    LET expired_keys == {k \in DOMAIN c : IsExpired(c[k], t)}
    IN [ret |-> Cardinality(expired_keys),
        cache |-> [x \in DOMAIN c \ expired_keys |-> c[x]]]

\* ------------------------------------------------------ dict and list access

Range(q) == {q[i] : i \in 1..Len(q)}

\* d.get(k, default) of a dict d.
PyGet(d, k, default) == IF k \in DOMAIN d.map THEN d.map[k] ELSE default

\* All sequences over S of length at most n.
SeqsUpTo(S, n) == UNION {[1..m -> S] : m \in 0..n}

\* json.loads on the response texts of the model; JSONDecodeError is its failure.
JSONDecodeError == [t |-> "JSONDecodeError"]

json_loads(text) ==
    CASE text = "[]" -> JList(<<>>)
      [] text = "{}" -> EmptyDict
      [] text = "null" -> None
      [] text = "{\"error_response\": {\"code\": \"x\"}}" ->
             JDict([error_response |-> JDict([code |-> JStr("x")])])
      [] OTHER -> JSONDecodeError

JsonTexts == {"", "<html>", "[]", "{}", "null", "{\"error_response\": {\"code\": \"x\"}}"}

\* What run_in_executor hands back: None when the call thread caught an
\* exception, else a response object with a body.
NoResponse == None
Response(body) == [t |-> "response", body |-> body]

\* The outcome of a piece of code that may raise: a value, or an exception.
Ok(v) == [raised |-> FALSE, exc |-> "", value |-> v]
Raise(e) == [raised |-> TRUE, exc |-> e, value |-> None]

\* ------------------------------------------- AliExpressClient: batch links

\* _check_cache_for_links: one link_cache.get per URL of target_urls, in order.
\* A falsy cached link counts as a miss.  It yields the pre-filled
\* results_dict, the uncached URLs in input order, and the dict the gets leave.
RECURSIVE CheckCacheForLinks_NoLookup(_, _, _, _, _, _)
RECURSIVE CheckCacheForLinks(_, _, _, _, _, _)
CheckCacheForLinks_NoLookup(urls, i, results, uncached, c, t) ==
    IF i > Len(urls)
    THEN [results_dict |-> results, uncached_urls |-> uncached, cache |-> c]
    ELSE CheckCacheForLinks_NoLookup(urls, i + 1, DictPut(results, urls[i], None),
                                     Append(uncached, urls[i]), c, t)

CheckCacheForLinks(urls, i, results, uncached, c, t) ==
    IF i > Len(urls)
    THEN [results_dict |-> results, uncached_urls |-> uncached, cache |-> c]
    ELSE LET url == urls[i]
             g == CacheGet(c, url, t)
         IN IF Truthy(g.ret)
            THEN CheckCacheForLinks(urls, i + 1, DictPut(results, url, g.ret),
                                    uncached, g.cache, t)
            ELSE CheckCacheForLinks(urls, i + 1, DictPut(results, url, None),
                                    Append(uncached, url), g.cache, t)

\* _prepare_api_source_values: the uncached URLs, as given, joined by commas
\* (the joined string is kept as the sequence of its parts).
PrepareApiSourceValues(uncached) == uncached

\* The vendor requests one invocation hands to the executor: none when nothing
\* is uncached, else a single request carrying every uncached URL.
VendorRequests_PerUrl(uncached) ==
    [i \in 1..Len(uncached) |-> PrepareApiSourceValues(<<uncached[i]>>)]

VendorRequests(uncached) ==
    IF uncached = <<>> THEN <<>> ELSE <<PrepareApiSourceValues(uncached)>>

\* _parse_api_promotion_response: the layered validation of the response body.
\* A failing layer returns []; .get on a value that is not a dict, and
\* "in" on None or a number, raise.
ParsePromotionLinks(result) ==
    LET promotion_links == PyGet(result, "promotion_links", EmptyDict)
    IN IF ~IsDict(promotion_links) THEN Raise("AttributeError")
       ELSE LET links_data == PyGet(promotion_links, "promotion_link", JList(<<>>))
            IN IF ~Truthy(links_data) \/ ~IsList(links_data) THEN Ok(<<>>)
               ELSE Ok(SelectSeq(links_data.items, IsDict))

ParsePromotionResult(resp_result_outer) ==
    IF PyGet(resp_result_outer, "resp_code", None) # JNum(200) THEN Ok(<<>>)
    ELSE LET result == PyGet(resp_result_outer, "result", EmptyDict)
         IN IF ~Truthy(result) THEN Ok(<<>>)
            ELSE IF ~IsDict(result) THEN Raise("AttributeError")
            ELSE ParsePromotionLinks(result)

ParsePromotionEnvelope(response_data) ==
    LET generate_response ==
            PyGet(response_data, "aliexpress_affiliate_link_generate_response", None)
    IN IF ~Truthy(generate_response) THEN Ok(<<>>)
       ELSE IF ~IsDict(generate_response) THEN Raise("AttributeError")
       ELSE LET resp_result_outer == PyGet(generate_response, "resp_result", None)
            IN IF ~Truthy(resp_result_outer) THEN Ok(<<>>)
               ELSE IF ~IsDict(resp_result_outer) THEN Raise("AttributeError")
               ELSE ParsePromotionResult(resp_result_outer)

ParseApiPromotionResponse(response_body) ==
    IF ~Truthy(response_body) THEN Ok(<<>>)
    ELSE LET response_data == IF IsStr(response_body)
                              THEN json_loads(response_body.s)
                              ELSE response_body
         IN IF response_data = JSONDecodeError THEN Ok(<<>>)
            ELSE IF response_data.t \in {"null", "num"} THEN Raise("TypeError")
            ELSE IF ~IsDict(response_data) THEN Raise("AttributeError")
            ELSE IF "error_response" \in DOMAIN response_data.map
                 THEN IF IsDict(response_data.map["error_response"])
                      THEN Ok(<<>>)
                      ELSE Raise("AttributeError")
            ELSE ParsePromotionEnvelope(response_data)

\* The link of the last complete pair the vendor returned for u, None when
\* there is none.
VendorLinkFor(u, pairs) ==
    LET good == {i \in 1..Len(pairs) :
                    /\ PyGet(pairs[i], "source_value", None) = JStr(u)
                    /\ Truthy(PyGet(pairs[i], "promotion_link", None))}
    IN IF good = {} THEN None
       ELSE pairs[CHOOSE i \in good : \A j \in good : j <= i].map["promotion_link"]

\* "if source_url and promo_link": both fields of the pair are truthy.
PairComplete_SourceOnly(source_url, promo_link) == Truthy(source_url)

PairComplete_Either(source_url, promo_link) ==
    Truthy(source_url) \/ Truthy(promo_link)

PairComplete(source_url, promo_link) == Truthy(source_url) /\ Truthy(promo_link)

\* "if source_url in results_dict", for a hashable source_url.
WasRequested_Any(source_url, results) == IsStr(source_url)

WasRequested(source_url, results) ==
    IsStr(source_url) /\ source_url.s \in DOMAIN results

\* _update_results_and_cache: the loop over the returned pairs.  A pair is
\* applied when both fields are truthy and source_value is a key of
\* results_dict; an unhashable source_value raises at the membership test,
\* after the earlier pairs were applied.
RECURSIVE UpdateResultsAndCache(_, _, _, _, _)
UpdateResultsAndCache(api_links, i, results, c, t) ==
    IF i > Len(api_links)
    THEN [raised |-> FALSE, exc |-> "", results_dict |-> results, cache |-> c]
    ELSE LET link_info == api_links[i]
             source_url == PyGet(link_info, "source_value", None)
             promo_link == PyGet(link_info, "promotion_link", None)
         IN IF PairComplete(source_url, promo_link)
            THEN IF source_url.t \in {"list", "dict"}
                 THEN [raised |-> TRUE, exc |-> "TypeError",
                       results_dict |-> results, cache |-> c]
                 ELSE IF WasRequested(source_url, results)
                 THEN UpdateResultsAndCache(
                          api_links, i + 1,
                          DictPut(results, source_url.s, promo_link),
                          CacheSet(c, source_url.s, promo_link, t), t)
                 ELSE UpdateResultsAndCache(api_links, i + 1, results, c, t)
            ELSE UpdateResultsAndCache(api_links, i + 1, results, c, t)

\* -------------------------------------- AliExpressClient: product details

target_currency == "USD"

\* products[0] of the code: the first item of a list, the first character of
\* a string, a KeyError on a dict.
FirstOf(products) ==
    CASE IsList(products) -> Ok(products.items[1])
      [] IsStr(products) -> Ok(JStr("c"))
      [] OTHER -> Raise("KeyError")

\* The product_info record built from products[0], with the defaults for a
\* missing currency and a missing title.
ProductInfo(product_data, product_id) ==
    JDict([image_url |-> PyGet(product_data, "product_main_image_url", None),
           price |-> PyGet(product_data, "target_sale_price", None),
           currency |-> PyGet(product_data, "target_sale_price_currency",
                              JStr(target_currency)),
           title |-> PyGet(product_data, "product_title",
                           JStr("Product " \o product_id))])

\* The validation of fetch_product_details inside its try block, from the
\* decoded body down to the product record: None when a layer fails, an
\* exception when a value has not the expected type.
ParseProductList(result, product_id) ==
    IF ~IsDict(result) THEN Raise("AttributeError")
    ELSE LET products_obj == PyGet(result, "products", EmptyDict)
         IN IF ~IsDict(products_obj) THEN Raise("AttributeError")
            ELSE LET products == PyGet(products_obj, "product", JList(<<>>))
                 IN IF ~Truthy(products) THEN Ok(None)
                    ELSE LET first == FirstOf(products)
                         IN IF first.raised THEN first
                            ELSE IF ~IsDict(first.value)
                                 THEN Raise("AttributeError")
                            ELSE Ok(ProductInfo(first.value, product_id))

ParseProductEnvelope(response_data, product_id) ==
    LET detail_response ==
            PyGet(response_data,
                  "aliexpress_affiliate_productdetail_get_response", None)
    IN IF ~Truthy(detail_response) THEN Ok(None)
       ELSE IF ~IsDict(detail_response) THEN Raise("AttributeError")
       ELSE LET resp_result == PyGet(detail_response, "resp_result", None)
            IN IF ~Truthy(resp_result) THEN Ok(None)
               ELSE IF ~IsDict(resp_result) THEN Raise("AttributeError")
               ELSE IF PyGet(resp_result, "resp_code", None) # JNum(200)
                    THEN Ok(None)
               ELSE ParseProductList(PyGet(resp_result, "result", EmptyDict),
                                     product_id)

ParseProductDetails(response_body, product_id) ==
    LET response_data == IF IsStr(response_body)
                         THEN json_loads(response_body.s)
                         ELSE response_body
    IN IF response_data = JSONDecodeError THEN Ok(None)
       ELSE IF response_data.t \in {"null", "num"} THEN Raise("TypeError")
       ELSE IF ~IsDict(response_data) THEN Raise("AttributeError")
       ELSE IF "error_response" \in DOMAIN response_data.map
            THEN IF IsDict(response_data.map["error_response"])
                 THEN Ok(None)
                 ELSE Raise("AttributeError")
       ELSE ParseProductEnvelope(response_data, product_id)

\* "except Exception" around the validation: what was raised becomes None.
ExceptException_Reraise(outcome) == outcome

ExceptException(outcome) == IF outcome.raised THEN Ok(None) ELSE outcome

\* The product_cache.set that ends a fetch whose response passed every layer.
StoreProduct_Never(c, id, outcome, t) == c

StoreProduct(c, id, outcome, t) ==
    IF ~outcome.raised /\ outcome.value # None
    THEN CacheSet(c, id, outcome.value, t)
    ELSE c

\* fetch_product_details from the response of the executor on: the check of
\* the response and its body, then the guarded validation.
ProductDetailsFrom(response, product_id) ==
    IF response = NoResponse THEN Ok(None)
    ELSE IF ~Truthy(response.body) THEN Ok(None)
    ELSE ExceptException(ParseProductDetails(response.body, product_id))

\* ------------------------------------------------------------ URLProcessor

\* A URL is kept by the parts the code reads: its scheme ("" when it has
\* none), its host, the segments of its path, the values of its _randl_shipto
\* and productIds query parameters ("" when the parameter is absent or blank;
\* the first value when it is repeated) and its fragment.
UrlOf(scheme, host, path, shipto, productIds, fragment) ==
    [t |-> "url", scheme |-> scheme, host |-> host, path |-> path,
     shipto |-> shipto, productIds |-> productIds, fragment |-> fragment]

\* The path of a product page of each kind.
PathOf(kind, id) ==
    CASE kind = "item" -> <<"item", id \o ".html">>
      [] kind = "p" -> <<"p", "x", id \o ".html">>
      [] kind = "product" -> <<"product", id>>
      [] OTHER -> <<"x">>

\* An https URL without fragment whose path is a product page of one kind.
Url(host, kind, id, shipto, productIds) ==
    UrlOf("https", host, PathOf(kind, id), shipto, productIds, "")

query_country == "IL"

Digits == {"1", "2"}

\* str.isdigit() on the parameter values of the model.
IsDigit(text) == text \in Digits

\* '.aliexpress.us' in url, and url.replace('.aliexpress.us', '.aliexpress.com').
HasUsDomain(url) == url.host = "www.aliexpress.us"

ReplaceUsDomain(url) ==
    IF HasUsDomain(url) THEN [url EXCEPT !.host = "www.aliexpress.com"] ELSE url

\* '_randl_shipto=' in url, and the re.sub that sets it to QUERY_COUNTRY.
HasShipto(url) == url.shipto # ""

SetShipto(url) == [url EXCEPT !.shipto = query_country]

\* STANDARD_ALIEXPRESS_DOMAIN_REGEX.match, on a URL with an http(s) scheme: an
\* aliexpress host that is neither of the two short-link hosts.  The match
\* is of a prefix of the URL, so what follows the domain is not looked at.
StandardHosts ==
    {"www.aliexpress.com", "www.aliexpress.us", "fr.aliexpress.com",
     "www.aliexpress.com["}

MatchesStandardDomain(url) ==
    url.scheme \in {"http", "https"} /\ url.host \in StandardHosts

\* A host that urlparse rejects ("Invalid IPv6 URL"): a bracket without its
\* pair in the network location.  A URL without scheme has no network
\* location for urlparse: its host is read as the start of the path.
BadHost == "www.aliexpress.com["

ValueError == [t |-> "ValueError"]

UrlParses(url) == url.scheme = "" \/ url.host # BadHost

\* "(\d+)\.html" at the start of a segment, and "(\d+)" at its start.
HtmlDigits(segment) ==
    IF \E d \in Digits : segment = d \o ".html"
    THEN CHOOSE d \in Digits : segment = d \o ".html"
    ELSE ""

LeadingDigits(segment) ==
    IF segment \in Digits THEN segment ELSE HtmlDigits(segment)

\* re.search takes the leftmost match: the least of the positions that match.
FirstMatch(hits) == CHOOSE i \in hits : \A j \in hits : i <= j

\* PRODUCT_ID_REGEX: /item/(\d+)\.html
ItemMatches(path, i) ==
    path[i] = "item" /\ i + 1 <= Len(path) /\ HtmlDigits(path[i + 1]) # ""
ItemGroup(path, i) == HtmlDigits(path[i + 1])
PRODUCT_ID_REGEX(path) ==
    LET hits == {i \in 1..Len(path) : ItemMatches(path, i)}
    IN IF hits = {} THEN "" ELSE ItemGroup(path, FirstMatch(hits))

\* alt_patterns[0]: /p/[^/]+/([0-9]+)\.html
AltPMatches(path, i) ==
    path[i] = "p" /\ i + 2 <= Len(path) /\ HtmlDigits(path[i + 2]) # ""
AltPGroup(path, i) == HtmlDigits(path[i + 2])
AltPPattern(path) ==
    LET hits == {i \in 1..Len(path) : AltPMatches(path, i)}
    IN IF hits = {} THEN "" ELSE AltPGroup(path, FirstMatch(hits))

\* alt_patterns[1]: product/([0-9]+)
AltProductMatches(path, i) ==
    path[i] = "product" /\ i + 1 <= Len(path) /\ LeadingDigits(path[i + 1]) # ""
AltProductGroup(path, i) == LeadingDigits(path[i + 1])
AltProductPattern(path) ==
    LET hits == {i \in 1..Len(path) : AltProductMatches(path, i)}
    IN IF hits = {} THEN "" ELSE AltProductGroup(path, FirstMatch(hits))

\* extract_product_id: urlparse raises ValueError on a URL it rejects; then the
\* productIds parameter when all digits, else /item/<digits>.html, else
\* /p/<segment>/<digits>.html, else product/<digits>, else None.
extract_product_id(url0) ==
    LET url == ReplaceUsDomain(url0)
    IN IF ~UrlParses(url) THEN ValueError
       ELSE IF url.productIds # "" /\ IsDigit(url.productIds)
            THEN JStr(url.productIds)
       ELSE IF PRODUCT_ID_REGEX(url.path) # "" THEN JStr(PRODUCT_ID_REGEX(url.path))
       ELSE IF AltPPattern(url.path) # "" THEN JStr(AltPPattern(url.path))
       ELSE IF AltProductPattern(url.path) # ""
            THEN JStr(AltProductPattern(url.path))
       ELSE None

\* clean_aliexpress_url: the scheme ("https" when the URL has none) and the
\* network location of the URL, with the path /item/<product_id>.html and
\* neither query nor fragment; None when urlparse rejects the URL.
clean_aliexpress_url_KeepQuery(url, id) ==
    IF ~UrlParses(url) THEN None
    ELSE UrlOf(IF url.scheme = "" THEN "https" ELSE url.scheme,
               IF url.scheme = "" THEN "" ELSE url.host,
               <<"item", id \o ".html">>, url.shipto, url.productIds, "")

clean_aliexpress_url(url, id) ==
    IF ~UrlParses(url) THEN None
    ELSE UrlOf(IF url.scheme = "" THEN "https" ELSE url.scheme,
               IF url.scheme = "" THEN "" ELSE url.host,
               <<"item", id \o ".html">>, "", "", "")

\* The except clauses of resolve_short_link: asyncio.TimeoutError,
\* aiohttp.ClientError and, last, Exception; each returns None.
ResolveExcept_NoCatchAll(exc) ==
    IF exc \in {"TimeoutError", "ClientError"} THEN Ok(None) ELSE Raise(exc)

ResolveExcept(exc) ==
    CASE exc = "TimeoutError" -> Ok(None)
      [] exc = "ClientError" -> Ok(None)
      [] OTHER -> Ok(None)

\* "response.status == 200 and response.url".
ResponseOk(response) == response.status = 200

\* The validation that ends a resolution: the final URL is cached and returned
\* when it matches the standard domain and carries a product id.
IsValidTarget_DomainOnly(final_url) == MatchesStandardDomain(final_url)

IsValidTarget(final_url) ==
    LET product_id == extract_product_id(final_url)
    IN /\ product_id # ValueError
       /\ MatchesStandardDomain(final_url)
       /\ Truthy(product_id)

\* The end of a resolution with final URL fu: the value returned and the
\* cache left, written only for a valid target.
ResolveFinish_NoCache(fu, s, c, t) ==
    [ret |-> IF IsValidTarget(fu) THEN fu ELSE None, cache |-> c]

ResolveFinish(fu, s, c, t) ==
    IF IsValidTarget(fu)
    THEN [ret |-> fu, cache |-> CacheSet(c, s, fu, t)]
    ELSE [ret |-> None, cache |-> c]

\* --------------------------------------------------- TelegramBot: a message

\* SHORT_LINK_DOMAIN_REGEX.match: https://s.click.aliexpress.com/e/<code>; the
\* code stands for the whole short URL as the key of the resolved-URL cache.
MatchesShortLinkDomain(url) ==
    /\ url.scheme \in {"http", "https"}
    /\ url.host = "s.click.aliexpress.com"
    /\ Len(url.path) >= 2
    /\ url.path[1] = "e"

ShortKey(url) == url.path[2]

\* The re.match that lets "https://" be put before a URL without scheme: the
\* text starts with an optional www., s.click. or a., then word characters up
\* to "aliexpress." and a top-level domain of the list, which has no "us".
StartsWithKnownDomain(url) ==
    url.host \in {"www.aliexpress.com", "s.click.aliexpress.com", BadHost}

\* resolve_short_link as one call: the lookup, the first GET with outcome o1
\* and, when the country is corrected, the second GET with outcome o2.
ResolveShortLink(s, c, t, o1, o2) ==
    LET g == CacheGet(c, s, t)
    IN IF Truthy(g.ret) THEN [ret |-> g.ret, cache |-> g.cache]
       ELSE IF o1.kind = "exc"
            THEN [ret |-> ResolveExcept(o1.exc).value, cache |-> g.cache]
       ELSE IF ~ResponseOk(o1) THEN [ret |-> None, cache |-> g.cache]
       ELSE LET url1 == ReplaceUsDomain(o1.url)
                fu == IF ~HasShipto(url1) THEN url1
                      ELSE IF o2.kind = "response" /\ ResponseOk(o2) THEN o2.url
                      ELSE SetShipto(url1)
            IN ResolveFinish(fu, s, g.cache, t)

\* "product_id not in processed_product_ids".
NotYetProcessed_Always(id, processed) == TRUE

NotYetProcessed(id, processed) == id \notin processed

\* One pass of the loop of _resolve_and_prepare_product_tasks over one URL:
\* the scheme test, the classification, the id and the base URL.  It yields
\* the id and the base URL found (None when there is none), the cache the
\* resolution left, and the exception that extract_product_id let through.
PrepareUrl(url0, c, t, o1, o2) ==
    LET skipped == url0.scheme \notin {"http", "https"} /\ ~StartsWithKnownDomain(url0)
        url == IF url0.scheme \in {"http", "https"} THEN url0
               ELSE [url0 EXCEPT !.scheme = "https"]
        nothing == [raised |-> FALSE, product_id |-> None, base_url |-> None,
                    cache |-> c]
    IN IF skipped THEN nothing
       ELSE IF MatchesStandardDomain(url)
       THEN LET product_id == extract_product_id(url)
            IN IF product_id = ValueError
               THEN [nothing EXCEPT !.raised = TRUE]
               ELSE IF Truthy(product_id)
               THEN [nothing EXCEPT !.product_id = product_id,
                                    !.base_url = clean_aliexpress_url(url, product_id.s)]
               ELSE nothing
       ELSE IF MatchesShortLinkDomain(url)
       THEN LET r == ResolveShortLink(ShortKey(url), c, t, o1, o2)
            IN IF ~Truthy(r.ret) THEN [nothing EXCEPT !.cache = r.cache]
               ELSE LET product_id == extract_product_id(r.ret)
                    IN IF product_id = ValueError
                       THEN [nothing EXCEPT !.raised = TRUE, !.cache = r.cache]
                       ELSE IF Truthy(product_id)
                       THEN [raised |-> FALSE, product_id |-> product_id,
                             base_url |-> clean_aliexpress_url(r.ret, product_id.s),
                             cache |-> r.cache]
                       ELSE [nothing EXCEPT !.cache = r.cache]
       ELSE nothing

\* The URL goes to resolve_short_link: it passed the scheme test, is no
\* standard URL and matches the short-link domains.
NeedsResolution(url0) ==
    LET url == IF url0.scheme \in {"http", "https"} THEN url0
               ELSE [url0 EXCEPT !.scheme = "https"]
    IN /\ url0.scheme \in {"http", "https"} \/ StartsWithKnownDomain(url0)
       /\ ~MatchesStandardDomain(url)
       /\ MatchesShortLinkDomain(url)

\* tasks.append(self.process_product_telegram(...)): the call makes a
\* coroutine object, which does not run before it is awaited.
AppendTask_Scheduled(status) == Append(status, "running")

AppendTask(status) == Append(status, "created")

\* A send of handle_message outside every try: its exception leaves the
\* handler.
AfterSend(ok, next) == IF ok THEN next ELSE "raised"

\* asyncio.gather(*tasks) returns when every task has ended.
GatherDone_FirstCompleted(status) ==
    \E i \in 1..Len(status) : status[i] \in {"finished", "failed"}

GatherDone(status) ==
    \A i \in 1..Len(status) : status[i] \in {"finished", "failed"}

\* ------------------------------------------------ the lock of a cache

\* asyncio.Lock: acquire goes through when nobody holds the lock; the exit
\* of "async with" releases it.
LockFree_Always(l, c) == TRUE

LockFree(l, c) == l[c] = ""

Acquired(l, c, task) == [l EXCEPT ![c] = task]

Released_Kept(l, c) == l

Released(l, c) == [l EXCEPT ![c] = ""]

\* ------------------------------------------- TelegramBot: one product

\* constants.py: the offers in the order of OFFERS.
OFFER_ORDER == <<"coin_ssr", "super", "bundels", "bundles_ssr">>

\* The text of a base URL, which clean_aliexpress_url builds as
\* scheme://netloc/item/<id>.html.
UrlText(url) ==
    url.scheme \o "://" \o url.host \o "/" \o url.path[1] \o "/" \o url.path[2]

\* offers.py: _wrap_url_with_star_aliexpress.
WrapWithStar(url) ==
    "https://star.aliexpress.com/share/share.htm?&redirectUrl=" \o url

\* build_urls of the strategy of each offer: a list with one URL.
build_urls(offer_key, base_url, product_id) ==
    CASE offer_key = "coin_ssr" ->
             <<"https://m.aliexpress.com/p/coin-index/index.html"
               \o "?_immersiveMode=true&from=syicon&productIds=" \o product_id>>
      [] offer_key = "super" ->
             <<WrapWithStar(base_url
                            \o "?sourceType=562&channel=sd&afSmartRedirect=y")>>
      [] offer_key = "bundels" ->
             <<WrapWithStar(base_url
                            \o "?sourceType=570&channel=bundles&afSmartRedirect=y")>>
      [] OTHER ->
             <<WrapWithStar("https://www.aliexpress.com/ssr/300000512/BundleDeals2"
                            \o "?disableNav=YES&pha_manifest=ssr&_immersiveMode=true"
                            \o "&productIds=" \o product_id)>>

\* _generate_offer_urls: the URLs of each offer, and all of them in the order
\* of OFFER_ORDER.
RECURSIVE Concat(_, _)
Concat(lists, i) ==
    IF i > Len(lists) THEN <<>> ELSE lists[i] \o Concat(lists, i + 1)

GenerateOfferUrls(base_url, product_id) ==
    LET target_urls_map ==
            [offer_key \in Range(OFFER_ORDER) |->
                build_urls(offer_key, base_url, product_id)]
    IN [target_urls_map |-> target_urls_map,
        all_urls_to_fetch |->
            Concat([i \in 1..Len(OFFER_ORDER) |-> target_urls_map[OFFER_ORDER[i]]], 1)]

\* all_links_dict.get(url).
LinkOf(all_links_dict, url) ==
    IF url \in DOMAIN all_links_dict THEN all_links_dict[url] ELSE None

\* The inner loop of the mapping: the first truthy link among the URLs of the
\* offer, None when there is none.
OfferLink_AnyUrl(urls_for_offer, all_links_dict) ==
    LET found == {u \in DOMAIN all_links_dict : Truthy(all_links_dict[u])}
    IN IF found = {} THEN None
       ELSE all_links_dict[CHOOSE u \in found : TRUE]

OfferLink(urls_for_offer, all_links_dict) ==
    LET found == {i \in 1..Len(urls_for_offer) :
                     Truthy(LinkOf(all_links_dict, urls_for_offer[i]))}
    IN IF found = {} THEN None
       ELSE LinkOf(all_links_dict, urls_for_offer[FirstMatch(found)])

\* The mapping of the batch result back to the offer keys, with the count of
\* the offers that have a link.
MapLinks(target_urls_map, all_links_dict) ==
    LET generated_links ==
            [offer_key \in Range(OFFER_ORDER) |->
                OfferLink(target_urls_map[offer_key], all_links_dict)]
    IN [generated_links |-> generated_links,
        success_count |->
            Cardinality({k \in Range(OFFER_ORDER) : generated_links[k] # None})]

\* _fetch_product_info on a record of the API or of the product cache.
ApiInfo(product_details, product_id) ==
    JDict([image_url |-> PyGet(product_details, "image_url", None),
           price |-> PyGet(product_details, "price", None),
           currency |-> PyGet(product_details, "currency", JStr("")),
           title |-> PyGet(product_details, "title",
                           JStr("Product " \o product_id)),
           source |-> JStr("API")])

\* The record of a product without metadata.
NoInfo(product_id) ==
    JDict([source |-> JStr("None"), title |-> JStr("Product " \o product_id)])

\* _fetch_product_info after the scraping fallback: what get_product_details_by_id
\* gave is a pair (name, image), something that is no pair, or an exception;
\* the last two end in the except clause.
ScrapedInfo_Reraise(scraped, product_id) ==
    IF scraped.kind # "pair" THEN Raise("Exception")
    ELSE IF Truthy(scraped.name)
         THEN Ok(JDict([image_url |-> scraped.image, price |-> None,
                        currency |-> JStr(""), title |-> scraped.name,
                        source |-> JStr("Scraped")]))
         ELSE Ok(NoInfo(product_id))

ScrapedInfo(scraped, product_id) ==
    IF scraped.kind # "pair" THEN Ok(NoInfo(product_id))
    ELSE IF Truthy(scraped.name)
         THEN Ok(JDict([image_url |-> scraped.image, price |-> None,
                        currency |-> JStr(""), title |-> scraped.name,
                        source |-> JStr("Scraped")]))
         ELSE Ok(NoInfo(product_id))

\* "if product_details": the fallback is for a falsy result only.
NeedsScraping(product_details) == ~Truthy(product_details)

\* _format_response_message: the title line, the price line chosen by the
\* source of the details, and one line per offer of OFFER_ORDER, in this
\* order, with its link or the mark of a failure.  Slicing a title that is
\* no string and looking an unhashable currency up raise TypeError.
PriceLine(product_info) ==
    LET details_source == PyGet(product_info, "source", None)
        product_price == PyGet(product_info, "price", None)
    IN IF details_source = JStr("API") /\ Truthy(product_price)
       THEN [line |-> "price", price |-> product_price,
             currency |-> PyGet(product_info, "currency", None)]
       ELSE IF details_source = JStr("Scraped")
       THEN [line |-> "unavailable", price |-> None, currency |-> None]
       ELSE [line |-> "no details", price |-> None, currency |-> None]

OfferLines(generated_links) ==
    [i \in 1..Len(OFFER_ORDER) |->
        LET link == IF OFFER_ORDER[i] \in DOMAIN generated_links
                    THEN generated_links[OFFER_ORDER[i]] ELSE None
        IN [offer |-> OFFER_ORDER[i],
            link |-> IF Truthy(link) THEN link ELSE JStr("failed")]]

FormatResponseMessage(product_info, generated_links) ==
    LET product_title == PyGet(product_info, "title", None)
        product_currency == PyGet(product_info, "currency", None)
    IN IF ~IsStr(product_title) THEN Raise("TypeError")
       ELSE IF product_currency.t \in {"list", "dict"} THEN Raise("TypeError")
       ELSE Ok([title |-> product_title, price |-> PriceLine(product_info),
                offers |-> OfferLines(generated_links)])

\* "if success_count > 0": the offers message, else the message that no
\* offer was found.
HasOffers_Always(success_count) == TRUE

HasOffers(success_count) == success_count > 0

\* _send_product_message sends a photo when the product has an image.
SendKind(product_image) == IF Truthy(product_image) THEN "photo" ELSE "text"

\* The except clause around the error notice: a failure of this send is
\* logged and the coroutine returns.
AfterErrorNotice_Unguarded(ok) == IF ok THEN "done" ELSE "raised"

AfterErrorNotice(ok) == "done"

\* ------------------------------------------------------------------ state

VARIABLES
    now,             \* time.time()
    cache,           \* CacheWithExpiry.cache of one instance used on its own
    cache_op,        \* the last operation on that instance, with its result
    last_set,        \* key -> the value and instant of the latest set(key, .)
    first_set,       \* key -> the instant of the first set(key, .)
    last_sweep,      \* the latest clear_expired that no set has followed, if any
    cache_ns,        \* the dict of a second instance, given the same gets and
                     \* sets as the first and never swept
    ns_ret,          \* what the latest get returned on that second instance
    served,          \* the keys a get has returned a value for since their latest set
    product_cache,   \* CacheManager.product_cache.cache
    link_cache,      \* CacheManager.link_cache.cache
    resolved_url_cache,  \* CacheManager.resolved_url_cache.cache
    b_pc,            \* generate_affiliate_links_batch: where the call is
    b_exc,           \* the exception it propagated, "" when none
    target_urls,     \* its argument
    results_dict,    \* its results_dict
    uncached_urls,   \* its uncached_urls
    api_links_data,  \* the pairs _parse_api_promotion_response returned
    b_requests,      \* the vendor requests this invocation has issued
    b_fresh,         \* input URL -> the unexpired entry it had at lookup, if any
    b_failure,       \* the response its vendor call got, when it is no response
                     \* or a body of one of the listed failures
    p_pc,            \* fetch_product_details: where the call is
    product_id,      \* its argument
    p_ret,           \* the value it returned
    p_response,      \* the response its vendor call got
    p_requests,      \* vendor calls issued by this invocation
    p_t0,            \* the instant of its cache lookup
    p_cache0,        \* product_cache as it was at the call, but for later sweeps
    p_prev,          \* the latest successful vendor fetch of product_id before it
    last_fetched,    \* product id -> the record and instant of its latest vendor
                     \* fetch, kept while younger than the time-to-live
    r_pc,            \* resolve_short_link: where the call is
    short_url,       \* its argument
    final_url,       \* its final_url
    r_ret,           \* the value it returned
    r_gets,          \* HTTP GETs issued by this invocation
    r_first,         \* the outcome of its first GET
    r_second,        \* the outcome of its country-corrected GET
    r_prev,          \* the latest successful resolution of short_url before it
    r_t0,            \* the instant of its cache lookup
    last_resolved,   \* short URL -> the URL and instant of its latest resolution,
                     \* kept while younger than the time-to-live
    r_cache0,        \* resolved_url_cache as it was at the call, but for later sweeps
    u_op,            \* the URL function applied last: "extract" or "clean"
    u_url,           \* its URL argument
    u_id,            \* the product_id argument of clean_aliexpress_url
    u_ret,           \* what it returned, or the exception it raised
    u_again,         \* clean_aliexpress_url applied to its own result
    m_pc,            \* handle_message: where the handler is
    potential_urls,  \* the candidate URLs of the message, in message order
    m_i,             \* the index of the URL the loop is at
    processed_product_ids,  \* the ids that already have a task
    tasks,           \* the product tasks prepared: (product_id, base_url) pairs
    m_yield,         \* URL index -> the id and base URL the URL yielded, if any
    t_status,        \* task index -> "created", "running", "finished" or "failed"
    loading,         \* the loading indicator: "none", "shown" or "deleted"
    m_exc,           \* the exception that left the handler, "" when none
    locks,           \* cache instance -> the task inside its lock, "" when free
    co,              \* task -> the cache operation or network call it is at
    rc,              \* task -> the product or batch call it runs next to the other
    writer,          \* cache key -> the task whose call set it last
    pl               \* process_product_telegram: where one call is, with its locals

cacheVars == <<cache, cache_op, last_set, first_set, last_sweep, cache_ns, ns_ret,
               served>>
registryVars == <<product_cache, link_cache, resolved_url_cache>>
batchVars == <<b_pc, b_exc, target_urls, results_dict, uncached_urls,
               api_links_data, b_requests, b_fresh, b_failure>>
productVars == <<p_pc, product_id, p_ret, p_response, p_requests, p_t0, p_cache0,
                 p_prev, last_fetched>>
resolveVars == <<r_pc, short_url, final_url, r_ret, r_gets, r_first, r_second, r_prev,
                 r_t0, last_resolved, r_cache0>>
urlVars == <<u_op, u_url, u_id, u_ret, u_again>>
msgVars == <<m_pc, potential_urls, m_i, processed_product_ids, tasks, m_yield,
             t_status, loading, m_exc>>
lockVars == <<locks, co>>
raceVars == <<rc, writer>>
pipeVars == <<pl>>
otherVars == <<raceVars, pipeVars>>
extVars == <<urlVars, msgVars, lockVars, otherVars>>
vars == <<now, cacheVars, registryVars, batchVars, productVars, resolveVars,
          extVars>>

\* The three cache instances of the CacheManager, and the coroutines that use
\* them side by side.
CacheNames == {"product_cache", "link_cache", "resolved_url_cache"}
Tasks == {"t1", "t2"}
\* A coroutine is idle, at the "async with self._lock" of a cache operation
\* ("waiting"), inside it ("locked", then "deleting" when it has found
\* entries to delete, then "leaving"), or awaiting a network call ("network").
\* seen holds the entries its check found expired; hit, the outcome of a get.
Idle == [at |-> "idle", op |-> "", c |-> "", hit |-> FALSE, seen |-> <<>>]

Keys == {"k1", "k2"}
Values == {JStr("v1"), JStr("v2")}

NoOp == [op |-> "none", key |-> "", ret |-> None, t |-> 0]

\* The task has not called yet.
NoCall ==
    [at |-> "idle", kind |-> "", key |-> <<>>, missed |-> {}, results |-> <<>>,
     pairs |-> <<>>, t |-> 0]

\* No call of process_product_telegram has begun yet.
NoPipeline ==
    [at |-> "idle", product_id |-> "", base_url |-> "", details |-> None,
     scrapes |-> 0, scraped |-> [kind |-> "none", name |-> None, image |-> None],
     info |-> None, target_urls_map |-> <<>>,
     all_urls_to_fetch |-> <<>>, cached |-> <<>>, uncached |-> <<>>,
     pairs |-> <<>>, requested |-> FALSE, all_links_dict |-> <<>>,
     generated_links |-> <<>>, success_count |-> 0, text |-> None,
     sent |-> <<>>, exc |-> ""]

\* No GET has ended yet.
NoOutcome == [kind |-> "none", exc |-> "", status |-> 0, url |-> None]

\* The vendor call has not ended, or not with one of the listed failures.
NoFailure == [t |-> "none"]

\* No clear_expired since the latest set.  Else: the instant of the latest one,
\* how many there were (2 for two or more) and how many entries they removed.
NoSweep == [done |-> FALSE, t |-> 0, n |-> 0, removed |-> 0]

Init ==
    /\ now = 0
    /\ cache = <<>>
    /\ cache_op = NoOp
    /\ last_set = <<>>
    /\ first_set = <<>>
    /\ last_sweep = NoSweep
    /\ cache_ns = <<>>
    /\ ns_ret = None
    /\ served = {}
    /\ product_cache = <<>>
    /\ link_cache = <<>>
    /\ resolved_url_cache = <<>>
    /\ b_pc = "idle"
    /\ b_exc = ""
    /\ target_urls = <<>>
    /\ results_dict = <<>>
    /\ uncached_urls = <<>>
    /\ api_links_data = <<>>
    /\ b_requests = <<>>
    /\ b_fresh = <<>>
    /\ b_failure = NoFailure
    /\ p_pc = "idle"
    /\ product_id = ""
    /\ p_ret = None
    /\ p_response = NoResponse
    /\ p_requests = 0
    /\ p_t0 = 0
    /\ p_cache0 = <<>>
    /\ p_prev = [done |-> FALSE, record |-> None, t |-> 0]
    /\ last_fetched = <<>>
    /\ r_pc = "idle"
    /\ short_url = ""
    /\ final_url = None
    /\ r_ret = None
    /\ r_gets = 0
    /\ r_first = NoOutcome
    /\ r_second = NoOutcome
    /\ r_prev = [done |-> FALSE, url |-> None, t |-> 0]
    /\ r_t0 = 0
    /\ last_resolved = <<>>
    /\ r_cache0 = <<>>
    /\ u_op = "none"
    /\ u_url = Url("www.aliexpress.com", "other", "", "", "")
    /\ u_id = ""
    /\ u_ret = None
    /\ u_again = None
    /\ m_pc = "idle"
    /\ potential_urls = <<>>
    /\ m_i = 0
    /\ processed_product_ids = {}
    /\ tasks = <<>>
    /\ m_yield = <<>>
    /\ t_status = <<>>
    /\ loading = "none"
    /\ m_exc = ""
    /\ locks = [c \in CacheNames |-> ""]
    /\ co = [task \in Tasks |-> Idle]
    /\ rc = [task \in Tasks |-> NoCall]
    /\ writer = <<>>
    /\ pl = NoPipeline

\* time.time() moves forward between two calls.
Tick ==
    /\ now < MaxTime
    /\ now' = now + 1

\* ------------------------------------------------- the cache used on its own

Get(key) ==
    LET r == CacheGet(cache, key, now)
        ns == CacheGet(cache_ns, key, now)
    IN /\ cache' = r.cache
       /\ cache_op' = [op |-> "get", key |-> key, ret |-> r.ret, t |-> now]
       /\ cache_ns' = ns.cache
       /\ ns_ret' = ns.ret
       /\ served' = IF r.ret # None THEN served \cup {key} ELSE served
       /\ UNCHANGED <<extVars, now, last_set, first_set, last_sweep, registryVars,
                      batchVars, productVars, resolveVars>>

Set(key, value) ==
    /\ cache' = CacheSet(cache, key, value, now)
    /\ cache_op' = [op |-> "set", key |-> key, ret |-> None, t |-> now]
    /\ last_set' = DictPut(last_set, key, [item |-> value, timestamp |-> now])
    /\ first_set' = IF key \in DOMAIN first_set THEN first_set
                     ELSE DictPut(first_set, key, now)
    /\ last_sweep' = NoSweep
    /\ cache_ns' = CacheSet(cache_ns, key, value, now)
    /\ served' = served \ {key}
    /\ UNCHANGED <<extVars, now, ns_ret, registryVars, batchVars, productVars,
                   resolveVars>>

ClearExpired ==
    LET r == CacheClearExpired(cache, now)
    IN /\ cache' = r.cache
       /\ cache_op' = [op |-> "clear_expired", key |-> "", ret |-> JNum(r.ret), t |-> now]
       /\ last_sweep' = [done |-> TRUE, t |-> now,
                          n |-> IF last_sweep.n = 0 THEN 1 ELSE 2,
                          removed |-> last_sweep.removed + r.ret]
       /\ UNCHANGED <<extVars, now, last_set, first_set, cache_ns, ns_ret, served,
                      registryVars, batchVars, productVars, resolveVars>>

CacheTick == Tick /\ UNCHANGED <<extVars, cacheVars, registryVars, batchVars, productVars, resolveVars>>

NextCache ==
    \/ CacheTick
    \/ \E k \in Keys : Get(k)
    \/ \E k \in Keys, v \in Values : Set(k, v)
    \/ ClearExpired

SpecCache == Init /\ [][NextCache]_vars

\* ------------------------------------------------ the vendor's batch answers

\* The target URLs callers ask for, and the source values the vendor may name:
\* those and one that no caller asks for.
URLs == {"u1", "u2"}
SourceValues == URLs \cup {"u3"}
Links == {"L1", "L2"}

Pair(source_value, promotion_link) ==
    JDict([source_value |-> source_value, promotion_link |-> promotion_link])

\* The items a promotion_link list may hold: well-formed pairs, a pair with an
\* empty link, a pair without source_value, an item that is not a dict, and a
\* pair whose source_value is a list.
LinkItems ==
    {Pair(JStr(u), JStr(l)) : u \in SourceValues, l \in Links}
    \cup {Pair(JStr("u1"), JStr("")),
          JDict([promotion_link |-> JStr("L1")]),
          JStr("junk"),
          Pair(JList(<<JStr("u1")>>), JStr("L1"))}

LinkEnvelope(x) == JDict([aliexpress_affiliate_link_generate_response |-> x])
LinkRespResult(x) == LinkEnvelope(JDict([resp_result |-> x]))
LinkResult(code, x) == LinkRespResult(JDict([resp_code |-> code, result |-> x]))
LinkPromotionLinks(x) == LinkResult(JNum(200), JDict([promotion_links |-> x]))
LinkList(x) == LinkPromotionLinks(JDict([promotion_link |-> x]))

\* Response bodies failing at one layer or another of the validation.
BatchFailureBodies ==
    {None, EmptyDict, JList(<<JNum(1)>>), JNum(5)}
    \cup {JStr(text) : text \in JsonTexts}
    \cup {JDict([error_response |-> JDict([msg |-> JStr("m")])]),
          JDict([error_response |-> JStr("oops")]),
          JDict([request_id |-> JStr("r")])}
    \cup {LinkEnvelope(x) : x \in {None, EmptyDict, JStr("x")}}
    \cup {LinkRespResult(x) : x \in {None, EmptyDict, JStr("x"),
                                     JDict([resp_code |-> JNum(200)]),
                                     JDict([resp_msg |-> JStr("m")])}}
    \cup {LinkResult(JNum(500), EmptyDict), LinkResult(JStr("200"), EmptyDict)}
    \cup {LinkResult(JNum(200), x) : x \in {None, EmptyDict, JStr("x"),
                                            JDict([total |-> JNum(1)])}}
    \cup {LinkPromotionLinks(x) : x \in {None, EmptyDict, JStr("x")}}
    \cup {LinkList(x) : x \in {None, JStr("x"), JList(<<>>),
                               JDict([source_value |-> JStr("u1")])}}

\* The bodies of the failures _parse_api_promotion_response tells apart: an
\* empty body, text that is not JSON, an error_response, a missing envelope, a
\* missing resp_result, a resp_code other than 200, a missing result, and
\* promotion links that are missing, empty or not a list.
ListedFailureBodies ==
    {None, JStr(""), JStr("<html>"),
     JDict([error_response |-> JDict([msg |-> JStr("m")])]),
     EmptyDict, JDict([request_id |-> JStr("r")]), LinkEnvelope(None),
     LinkRespResult(None), LinkRespResult(EmptyDict),
     LinkRespResult(JDict([resp_msg |-> JStr("m")])),
     LinkResult(JNum(500), EmptyDict), LinkResult(JStr("200"), EmptyDict),
     LinkRespResult(JDict([resp_code |-> JNum(200)])),
     LinkResult(JNum(200), None), LinkResult(JNum(200), EmptyDict),
     LinkResult(JNum(200), JDict([total |-> JNum(1)])),
     LinkPromotionLinks(None), LinkPromotionLinks(EmptyDict),
     LinkPromotionLinks(JStr("x")),
     LinkList(None), LinkList(JList(<<>>)), LinkList(JStr("x")),
     LinkList(JDict([source_value |-> JStr("u1")]))}

ListedFailures == {NoResponse} \cup {Response(b) : b \in ListedFailureBodies}

BatchLinkBodies ==
    {LinkList(JList(q)) : q \in SeqsUpTo(LinkItems, MaxPairs) \ {<<>>}}

BatchResponses ==
    {NoResponse} \cup {Response(b) : b \in BatchFailureBodies \cup BatchLinkBodies}

\* --------------------------------------- generate_affiliate_links_batch

\* The steps up to the vendor call: the cache check and the early return.
BatchStart(urls) ==
    /\ b_pc \in {"idle", "returned", "raised"}
    /\ LET r == CheckCacheForLinks(urls, 1, <<>>, <<>>, link_cache, now)
       IN /\ target_urls' = urls
          /\ results_dict' = r.results_dict
          /\ uncached_urls' = r.uncached_urls
          /\ link_cache' = r.cache
          /\ b_requests' = VendorRequests(r.uncached_urls)
          /\ b_pc' = IF r.uncached_urls = <<>> THEN "returned" ELSE "api"
    /\ b_fresh' = [u \in Range(urls) |->
                     IF u \in DOMAIN link_cache
                        /\ now - link_cache[u].timestamp < expiry_seconds
                     THEN [hit |-> TRUE, item |-> link_cache[u].item]
                     ELSE [hit |-> FALSE, item |-> None]]
    /\ api_links_data' = <<>>
    /\ b_exc' = ""
    /\ b_failure' = NoFailure
    /\ UNCHANGED <<extVars, now, cacheVars, product_cache, resolved_url_cache,
                   productVars, resolveVars>>

\* The steps after the vendor call: parse, update, return.
BatchVendorResponds(raw_response) ==
    /\ b_pc = "api"
    /\ LET parsed == ParseApiPromotionResponse(
                         IF raw_response = NoResponse THEN None
                         ELSE raw_response.body)
       IN IF parsed.raised
          THEN /\ b_pc' = "raised"
               /\ b_exc' = parsed.exc
               /\ UNCHANGED <<api_links_data, results_dict, link_cache>>
          ELSE LET u == UpdateResultsAndCache(parsed.value, 1, results_dict,
                                              link_cache, now)
               IN /\ api_links_data' = parsed.value
                  /\ results_dict' = u.results_dict
                  /\ link_cache' = u.cache
                  /\ b_pc' = IF u.raised THEN "raised" ELSE "returned"
                  /\ b_exc' = u.exc
    /\ b_failure' = IF raw_response \in ListedFailures THEN raw_response ELSE NoFailure
    /\ UNCHANGED <<extVars, now, cacheVars, product_cache, resolved_url_cache,
                   target_urls, uncached_urls, b_requests, b_fresh,
                   productVars, resolveVars>>

\* CacheManager.periodic_cache_cleanup: the three sweeps of the job.
PeriodicCacheCleanup ==
    /\ product_cache' = CacheClearExpired(product_cache, now).cache
    /\ link_cache' = CacheClearExpired(link_cache, now).cache
    /\ resolved_url_cache' = CacheClearExpired(resolved_url_cache, now).cache

BatchTick == Tick /\ UNCHANGED <<extVars, cacheVars, registryVars, batchVars, productVars, resolveVars>>

BatchCleanup ==
    PeriodicCacheCleanup /\ UNCHANGED <<extVars, now, cacheVars, batchVars, productVars, resolveVars>>

NextBatch ==
    \/ BatchTick
    \/ BatchCleanup
    \/ \E urls \in SeqsUpTo(URLs, MaxUrls) : BatchStart(urls)
    \/ \E raw_response \in BatchResponses : BatchVendorResponds(raw_response)

SpecBatch == Init /\ [][NextBatch]_vars

\* ------------------------------------------ the vendor's product answers

ProductIds == {"1", "2"}

ProductEnvelope(x) ==
    JDict([aliexpress_affiliate_productdetail_get_response |-> x])
ProductRespResult(x) == ProductEnvelope(JDict([resp_result |-> x]))
ProductResult(code, x) ==
    ProductRespResult(JDict([resp_code |-> code, result |-> x]))
ProductList(x) ==
    ProductResult(JNum(200), JDict([products |-> JDict([product |-> x])]))

FullProduct ==
    JDict([product_main_image_url |-> JStr("img"),
           target_sale_price |-> JStr("9.99"),
           target_sale_price_currency |-> JStr("EUR"),
           product_title |-> JStr("T")])

\* Responses that fail at one layer or another of the validation.
ProductFailureResponses ==
    {NoResponse} \cup
    {Response(b) : b \in
        {None, EmptyDict, JList(<<JNum(1)>>), JNum(5)}
        \cup {JStr(text) : text \in JsonTexts}
        \cup {JDict([error_response |-> JDict([msg |-> JStr("m")])]),
              JDict([error_response |-> JStr("oops")]),
              JDict([request_id |-> JStr("r")])}
        \cup {ProductEnvelope(x) : x \in {None, EmptyDict, JStr("x")}}
        \cup {ProductRespResult(x) : x \in {None, EmptyDict, JStr("x"),
                                            JDict([resp_code |-> JNum(200)]),
                                            JDict([resp_msg |-> JStr("m")])}}
        \cup {ProductResult(JNum(500), EmptyDict),
              ProductResult(JStr("200"), EmptyDict)}
        \cup {ProductResult(JNum(200), x) :
                 x \in {None, EmptyDict, JStr("x"), JDict([products |-> None]),
                        JDict([products |-> EmptyDict])}}
        \cup {ProductList(x) : x \in {None, JList(<<>>), JStr("abc"),
                                      JDict([total |-> JNum(1)]),
                                      JList(<<JStr("junk")>>)}}}

\* Responses that pass every layer: a product list whose first item is a dict.
ProductSuccessResponses ==
    {Response(ProductList(JList(q))) :
        q \in {<<FullProduct>>, <<EmptyDict>>,
               <<JDict([product_title |-> JStr("T2")]), FullProduct>>}}

ProductResponses == ProductFailureResponses \cup ProductSuccessResponses

\* ------------------------------------------------ fetch_product_details

\* The steps up to the vendor call: the cache lookup and the return on a hit.
FetchStart(id) ==
    /\ p_pc \in {"idle", "returned", "raised"}
    /\ LET g == CacheGet(product_cache, id, now)
       IN /\ product_cache' = g.cache
          /\ p_ret' = g.ret
          /\ p_pc' = IF Truthy(g.ret) THEN "returned" ELSE "api"
          /\ p_requests' = IF Truthy(g.ret) THEN 0 ELSE 1
    /\ product_id' = id
    /\ p_response' = NoResponse
    /\ p_t0' = now
    /\ p_cache0' = product_cache
    /\ p_prev' = IF id \in DOMAIN last_fetched THEN last_fetched[id]
                  ELSE [done |-> FALSE, record |-> None, t |-> 0]
    /\ UNCHANGED <<extVars, now, cacheVars, link_cache, resolved_url_cache, batchVars,
                   resolveVars, last_fetched>>

\* The steps after the vendor call: validation, caching of the record, return.
FetchVendorResponds(response) ==
    /\ p_pc = "api"
    /\ LET outcome == ProductDetailsFrom(response, product_id)
       IN /\ p_pc' = IF outcome.raised THEN "raised" ELSE "returned"
          /\ p_ret' = outcome.value
          /\ product_cache' = StoreProduct(product_cache, product_id, outcome, now)
          /\ last_fetched' =
                 IF ~outcome.raised /\ outcome.value # None
                 THEN DictPut(last_fetched, product_id,
                              [done |-> TRUE, record |-> outcome.value, t |-> now])
                 ELSE last_fetched
    /\ p_response' = response
    /\ UNCHANGED <<extVars, now, cacheVars, link_cache, resolved_url_cache, batchVars,
                   resolveVars, product_id, p_requests, p_t0, p_cache0, p_prev>>

ProductTick ==
    /\ Tick
    /\ last_fetched' = [id \in {x \in DOMAIN last_fetched :
                                  now' - last_fetched[x].t < expiry_seconds}
                          |-> last_fetched[id]]
    /\ UNCHANGED <<extVars, cacheVars, registryVars, batchVars, resolveVars, p_pc,
                   product_id, p_ret, p_response, p_requests, p_t0, p_cache0,
                   p_prev>>

ProductCleanup ==
    /\ PeriodicCacheCleanup
    /\ p_cache0' = CacheClearExpired(p_cache0, now).cache
    /\ UNCHANGED <<extVars, now, cacheVars, batchVars, resolveVars, p_pc, product_id,
                   p_ret, p_response, p_requests, p_t0, p_prev, last_fetched>>

NextProduct ==
    \/ ProductTick
    \/ ProductCleanup
    \/ \E id \in ProductIds : FetchStart(id)
    \/ \E response \in ProductResponses : FetchVendorResponds(response)

SpecProduct == Init /\ [][NextProduct]_vars

\* ------------------------------------------------ the short-link transport

ShortURLs == {"s1", "s2"}

\* The URLs a redirect chain may end at.
FinalURLs ==
    {Url("www.aliexpress.com", "item", "1", "", ""),
     Url("www.aliexpress.us", "item", "1", "", ""),
     Url("www.aliexpress.com", "item", "1", "US", ""),
     Url("www.aliexpress.com", "item", "2", "IL", ""),
     Url("www.aliexpress.us", "p", "2", "US", ""),
     Url("www.aliexpress.com", "other", "", "", "2"),
     Url("www.aliexpress.com", "other", "", "", "abc"),
     Url("www.aliexpress.com", "other", "", "", ""),
     Url("login.example.com", "item", "1", "", "")}

HttpExceptions ==
    {[kind |-> "exc", exc |-> e, status |-> 0, url |-> None] :
        e \in {"TimeoutError", "ClientError", "ValueError"}}

HttpResponses ==
    {[kind |-> "response", exc |-> "", status |-> 200, url |-> u] : u \in FinalURLs}
    \cup {[kind |-> "response", exc |-> "", status |-> 404,
           url |-> Url("www.aliexpress.com", "item", "1", "", "")]}

HttpOutcomes == HttpExceptions \cup HttpResponses

NoPrev == [done |-> FALSE, url |-> None, t |-> 0]

\* --------------------------------------------------- resolve_short_link

\* The steps up to the first GET: the cache lookup and the return on a hit.
ResolveStart(s) ==
    /\ r_pc \in {"idle", "returned", "raised"}
    /\ LET g == CacheGet(resolved_url_cache, s, now)
       IN /\ resolved_url_cache' = g.cache
          /\ r_ret' = g.ret
          /\ r_pc' = IF Truthy(g.ret) THEN "returned" ELSE "get1"
          /\ r_gets' = IF Truthy(g.ret) THEN 0 ELSE 1
    /\ short_url' = s
    /\ final_url' = None
    /\ r_first' = NoOutcome
    /\ r_second' = NoOutcome
    /\ r_prev' = IF s \in DOMAIN last_resolved THEN last_resolved[s] ELSE NoPrev
    /\ r_t0' = now
    /\ r_cache0' = resolved_url_cache
    /\ UNCHANGED <<extVars, now, cacheVars, product_cache, link_cache, batchVars,
                   productVars, last_resolved>>

\* A resolution ends: r is the value returned (or the exception) and c the
\* cache left.
ResolveReturn(raised, ret, c) ==
    /\ r_pc' = IF raised THEN "raised" ELSE "returned"
    /\ r_ret' = ret
    /\ resolved_url_cache' = c
    /\ last_resolved' =
           IF ~raised /\ ret # None
           THEN DictPut(last_resolved, short_url,
                        [done |-> TRUE, url |-> ret, t |-> now])
           ELSE last_resolved

\* The first GET ends: an exception, a status other than 200, or a final URL
\* that is normalised and either validated or fetched again with the
\* corrected country.
ResolveFirstResponse(outcome) ==
    /\ r_pc = "get1"
    /\ r_first' = outcome
    /\ IF outcome.kind = "exc"
       THEN /\ ResolveReturn(ResolveExcept(outcome.exc).raised, None,
                             resolved_url_cache)
            /\ UNCHANGED <<final_url, r_gets>>
       ELSE IF ~ResponseOk(outcome)
       THEN /\ ResolveReturn(FALSE, None, resolved_url_cache)
            /\ UNCHANGED <<final_url, r_gets>>
       ELSE LET url1 == ReplaceUsDomain(outcome.url)
            IN IF HasShipto(url1)
               THEN /\ final_url' = SetShipto(url1)
                    /\ r_pc' = "get2"
                    /\ r_gets' = r_gets + 1
                    /\ UNCHANGED <<r_ret, resolved_url_cache, last_resolved>>
               ELSE LET f == ResolveFinish(url1, short_url, resolved_url_cache, now)
                    IN /\ final_url' = url1
                       /\ ResolveReturn(FALSE, f.ret, f.cache)
                       /\ UNCHANGED r_gets
    /\ UNCHANGED <<extVars, now, cacheVars, product_cache, link_cache, batchVars,
                   productVars, short_url, r_second, r_prev, r_t0, r_cache0>>

\* The country-corrected GET ends: its URL replaces final_url on a 200, any
\* exception and any other status keep the first result; then the validation.
ResolveSecondResponse_Retry(outcome) ==
    /\ r_pc = "get2"
    /\ r_gets' = r_gets + 1
    /\ UNCHANGED <<extVars, now, cacheVars, registryVars, batchVars, productVars, r_pc,
                   short_url, final_url, r_ret, r_first, r_second, r_prev, r_t0,
                   last_resolved, r_cache0>>

ResolveSecondResponse_Fatal(outcome) ==
    /\ r_pc = "get2"
    /\ r_second' = outcome
    /\ LET ok == outcome.kind = "response" /\ ResponseOk(outcome)
           fu == IF ok THEN outcome.url ELSE final_url
           f == ResolveFinish(fu, short_url, resolved_url_cache, now)
       IN /\ final_url' = fu
          /\ IF ok THEN ResolveReturn(FALSE, f.ret, f.cache)
             ELSE ResolveReturn(FALSE, None, resolved_url_cache)
    /\ UNCHANGED <<extVars, now, cacheVars, product_cache, link_cache, batchVars,
                   productVars, short_url, r_gets, r_first, r_prev, r_t0, r_cache0>>

ResolveSecondResponse(outcome) ==
    /\ r_pc = "get2"
    /\ r_second' = outcome
    /\ LET fu == IF outcome.kind = "response" /\ ResponseOk(outcome)
                 THEN outcome.url ELSE final_url
           f == ResolveFinish(fu, short_url, resolved_url_cache, now)
       IN /\ final_url' = fu
          /\ ResolveReturn(FALSE, f.ret, f.cache)
    /\ UNCHANGED <<extVars, now, cacheVars, product_cache, link_cache, batchVars,
                   productVars, short_url, r_gets, r_first, r_prev, r_t0, r_cache0>>

ResolveTick ==
    /\ Tick
    /\ last_resolved' = [s \in {x \in DOMAIN last_resolved :
                                  now' - last_resolved[x].t < expiry_seconds}
                           |-> last_resolved[s]]
    /\ UNCHANGED <<extVars, cacheVars, registryVars, batchVars, productVars, r_pc,
                   short_url, final_url, r_ret, r_gets, r_first, r_second, r_prev, r_t0,
                   r_cache0>>

ResolveCleanup ==
    /\ PeriodicCacheCleanup
    /\ r_cache0' = CacheClearExpired(r_cache0, now).cache
    /\ UNCHANGED <<extVars, now, cacheVars, batchVars, productVars, r_pc, short_url,
                   final_url, r_ret, r_gets, r_first, r_second, r_prev, r_t0,
                   last_resolved>>

NextResolve ==
    \/ ResolveTick
    \/ ResolveCleanup
    \/ \E s \in ShortURLs : ResolveStart(s)
    \/ \E outcome \in HttpOutcomes : ResolveFirstResponse(outcome)
    \/ \E outcome \in HttpOutcomes : ResolveSecondResponse(outcome)

SpecResolve == Init /\ [][NextResolve]_vars

\* ------------------------------------------------- the URL functions alone

UrlPaths ==
    {<<>>, <<"x">>, <<"item", "x">>,
     <<"item", "1.html">>, <<"p", "x", "2.html">>, <<"product", "1">>,
     <<"product", "2.html">>,
     <<"item", "1.html", "p", "x", "2.html">>,
     <<"p", "x", "2.html", "item", "1.html">>,
     <<"product", "2", "item", "1.html">>,
     <<"p", "x", "1.html", "product", "2">>,
     <<"product", "2", "p", "x", "1.html">>,
     <<"item", "2.html", "item", "1.html">>}

\* The URLs a message may carry to extract_product_id.
UrlInputs ==
    {UrlOf(scheme, host, path, shipto, productIds, fragment) :
        scheme \in {"https", "http", ""}, host \in StandardHosts,
        path \in UrlPaths, shipto \in {"", "US"},
        productIds \in {"", "1", "2", "abc"}, fragment \in {"", "f"}}

\* The URLs that reach clean_aliexpress_url: both call sites pass a URL that
\* starts with http:// or https:// and that extract_product_id has parsed.
CleanInputs ==
    {url \in UrlInputs : url.scheme \in {"http", "https"} /\ UrlParses(url)}

\* One application of a URL function to one input: the functions keep no state,
\* so a behaviour applies one of them once.
ExtractProductId(url) ==
    /\ u_op = "none"
    /\ u_op' = "extract"
    /\ u_url' = url
    /\ u_id' = ""
    /\ u_ret' = extract_product_id(url)
    /\ u_again' = None
    /\ UNCHANGED <<now, cacheVars, registryVars, batchVars, productVars,
                   resolveVars, msgVars, lockVars, otherVars>>

CleanAliexpressUrl(url, id) ==
    /\ u_op = "none"
    /\ u_op' = "clean"
    /\ u_url' = url
    /\ u_id' = id
    /\ u_ret' = clean_aliexpress_url(url, id)
    /\ u_again' = IF clean_aliexpress_url(url, id) = None THEN None
                  ELSE clean_aliexpress_url(clean_aliexpress_url(url, id), id)
    /\ UNCHANGED <<now, cacheVars, registryVars, batchVars, productVars,
                   resolveVars, msgVars, lockVars, otherVars>>

NextUrl ==
    \/ \E url \in UrlInputs : ExtractProductId(url)
    \/ \E url \in CleanInputs, id \in Digits : CleanAliexpressUrl(url, id)

SpecUrl == Init /\ [][NextUrl]_vars

\* ------------------------------------- the core's operations side by side

\* One batch call, one product call and one resolution in flight at a time
\* each, interleaved at their awaits, over a few inputs and answers of each,
\* within one tick of the clock (no entry expires).
CoreBatchResponses ==
    {NoResponse,
     Response(JList(<<JNum(1)>>)),
     Response(LinkList(JList(<<Pair(JStr("u1"), JStr("L1"))>>))),
     Response(LinkList(JList(<<Pair(JStr("u2"), JStr("L1")),
                               Pair(JStr("u1"), JStr("L1"))>>)))}

CoreProductResponses ==
    {NoResponse, Response(ProductList(JList(<<FullProduct>>)))}

CoreHttpOutcomes ==
    {o \in HttpOutcomes :
        \/ o.kind = "exc" /\ o.exc = "TimeoutError"
        \/ o.kind = "response" /\ o.status = 404
        \/ o.kind = "response" /\ o.status = 200
              /\ o.url \in {Url("www.aliexpress.com", "item", "1", "", ""),
                            Url("www.aliexpress.com", "item", "1", "US", ""),
                            Url("login.example.com", "item", "1", "", "")}}

NextCore ==
    \/ \E urls \in SeqsUpTo(URLs, MaxUrls - 1) : BatchStart(urls)
    \/ \E raw_response \in CoreBatchResponses : BatchVendorResponds(raw_response)
    \/ FetchStart("1")
    \/ \E response \in CoreProductResponses : FetchVendorResponds(response)
    \/ ResolveStart("s1")
    \/ \E outcome \in CoreHttpOutcomes : ResolveFirstResponse(outcome)
    \/ \E outcome \in CoreHttpOutcomes : ResolveSecondResponse(outcome)

SpecCore == Init /\ [][NextCore]_vars

\* ------------------------------------------------------- handle_message

\* The candidate URLs a message may carry: standard URLs of one product on
\* two hosts, a URL without scheme, one with a domain the scheme test does not
\* know, a standard URL without product id, a foreign URL, a short link, and
\* a standard URL whose network location urlparse rejects.
MsgCandidates ==
    {UrlOf("https", "www.aliexpress.com", <<"item", "1.html">>, "", "", ""),
     UrlOf("https", "fr.aliexpress.com", <<"p", "x", "1.html">>, "", "abc", "f"),
     UrlOf("", "www.aliexpress.com", <<"item", "2.html">>, "", "", ""),
     UrlOf("", "www.aliexpress.us", <<"item", "2.html">>, "", "", ""),
     UrlOf("https", "www.aliexpress.com", <<"x">>, "", "", ""),
     UrlOf("https", "login.example.com", <<"item", "1.html">>, "", "", ""),
     UrlOf("https", "s.click.aliexpress.com", <<"e", "s1">>, "", "", ""),
     UrlOf("https", BadHost, <<"item", "1.html">>, "", "", "")}

\* The longest list of candidate URLs of one message.
MaxMsgUrls == 3

MsgHttpOutcomes ==
    CoreHttpOutcomes \cup
    {o \in HttpOutcomes : o.kind = "response" /\ o.status = 200
                          /\ o.url = Url("www.aliexpress.us", "p", "2", "US", "")}

\* handle_message up to the loop: no candidate URL ends the handler; else the
\* loading indicator is shown and the loop starts.
MessageStart(urls) ==
    /\ m_pc \in {"idle", "done", "raised"}
    /\ potential_urls' = urls
    /\ m_pc' = IF urls = <<>> THEN "done" ELSE "loop"
    /\ loading' = IF urls = <<>> THEN "none" ELSE "shown"
    /\ m_i' = 1
    /\ processed_product_ids' = {}
    /\ tasks' = <<>>
    /\ m_yield' = <<>>
    /\ t_status' = <<>>
    /\ m_exc' = ""
    /\ UNCHANGED <<now, cacheVars, registryVars, batchVars, productVars,
                   resolveVars, urlVars, lockVars, otherVars>>

\* The loop reaches a short link and awaits resolve_short_link.
ResolveBegin ==
    /\ m_pc = "loop"
    /\ NeedsResolution(potential_urls[m_i])
    /\ m_pc' = "resolving"
    /\ UNCHANGED <<now, cacheVars, registryVars, batchVars, productVars,
                   resolveVars, urlVars, lockVars, otherVars, potential_urls, m_i,
                   processed_product_ids, tasks, m_yield, t_status, loading,
                   m_exc>>

\* One pass of the loop, from the end of the resolution on for a short link.
\* An exception of extract_product_id leaves the loop and the handler.
PrepareStep(o1, o2) ==
    /\ \/ m_pc = "loop" /\ ~NeedsResolution(potential_urls[m_i])
       \/ m_pc = "resolving"
    /\ LET r == PrepareUrl(potential_urls[m_i], resolved_url_cache, now, o1, o2)
           fresh == /\ ~r.raised
                    /\ Truthy(r.product_id)
                    /\ Truthy(r.base_url)
                    /\ NotYetProcessed(r.product_id.s, processed_product_ids)
       IN /\ resolved_url_cache' = r.cache
          /\ m_exc' = IF r.raised THEN "ValueError" ELSE ""
          /\ m_pc' = IF r.raised THEN "raised"
                     ELSE IF m_i = Len(potential_urls) THEN "prepared"
                     ELSE "loop"
          /\ m_i' = IF r.raised THEN m_i ELSE m_i + 1
          /\ m_yield' = IF r.raised THEN m_yield
                        ELSE Append(m_yield, [product_id |-> r.product_id,
                                              base_url |-> r.base_url])
          /\ processed_product_ids' =
                 IF fresh THEN processed_product_ids \cup {r.product_id.s}
                 ELSE processed_product_ids
          /\ tasks' = IF fresh
                      THEN Append(tasks, [product_id |-> r.product_id.s,
                                          base_url |-> r.base_url])
                      ELSE tasks
          /\ t_status' = IF fresh THEN AppendTask(t_status) ELSE t_status
    /\ UNCHANGED <<now, cacheVars, product_cache, link_cache, batchVars,
                   productVars, resolveVars, urlVars, lockVars, otherVars, potential_urls,
                   loading>>

\* "if not tasks": the message about no valid link is sent, then the loading
\* indicator is deleted.
NoTasks(ok) ==
    /\ m_pc = "prepared"
    /\ tasks = <<>>
    /\ m_pc' = AfterSend(ok, "done")
    /\ loading' = IF m_pc' = "done" THEN "deleted" ELSE loading
    /\ m_exc' = IF m_pc' = "done" THEN "" ELSE "TelegramError"
    /\ UNCHANGED <<now, cacheVars, registryVars, batchVars, productVars,
                   resolveVars, urlVars, lockVars, otherVars, potential_urls, m_i,
                   processed_product_ids, tasks, m_yield, t_status>>

\* With several tasks the message about their number is sent; then
\* asyncio.gather(*tasks) starts every product pipeline.
GatherStart(ok) ==
    /\ m_pc = "prepared"
    /\ tasks # <<>>
    /\ Len(tasks) > 1 \/ ok
    /\ m_pc' = IF Len(tasks) > 1 THEN AfterSend(ok, "gather") ELSE "gather"
    /\ t_status' = IF m_pc' = "gather" THEN [i \in 1..Len(tasks) |-> "running"]
                   ELSE t_status
    /\ m_exc' = IF m_pc' = "gather" THEN "" ELSE "TelegramError"
    /\ UNCHANGED <<now, cacheVars, registryVars, batchVars, productVars,
                   resolveVars, urlVars, lockVars, otherVars, potential_urls, m_i,
                   processed_product_ids, tasks, m_yield, loading>>

\* process_product_telegram ends: its message is sent ("finished"), or its
\* except clause caught an exception and reported it ("failed").
PipelineEnds(i, outcome) ==
    /\ m_pc = "gather"
    /\ i \in 1..Len(t_status)
    /\ t_status[i] = "running"
    /\ t_status' = [t_status EXCEPT ![i] = outcome]
    /\ UNCHANGED <<now, cacheVars, registryVars, batchVars, productVars,
                   resolveVars, urlVars, lockVars, otherVars, m_pc, potential_urls, m_i,
                   processed_product_ids, tasks, m_yield, loading, m_exc>>

\* gather returns and the loading indicator is deleted.
DeleteLoadingAfterGather ==
    /\ m_pc = "gather"
    /\ GatherDone(t_status)
    /\ loading' = "deleted"
    /\ m_pc' = "done"
    /\ UNCHANGED <<now, cacheVars, registryVars, batchVars, productVars,
                   resolveVars, urlVars, lockVars, otherVars, potential_urls, m_i,
                   processed_product_ids, tasks, m_yield, t_status, m_exc>>

NextMessage ==
    \/ \E urls \in SeqsUpTo(MsgCandidates, MaxMsgUrls) : MessageStart(urls)
    \/ ResolveBegin
    \/ \E o1, o2 \in MsgHttpOutcomes : PrepareStep(o1, o2)
    \/ \E ok \in BOOLEAN : NoTasks(ok)
    \/ \E ok \in BOOLEAN : GatherStart(ok)
    \/ \E i \in 1..MaxMsgUrls, outcome \in {"finished", "failed"} :
           PipelineEnds(i, outcome)
    \/ DeleteLoadingAfterGather

SpecMessage == Init /\ [][NextMessage]_vars

\* ------------------------------------- coroutines on the three caches

\* The key every coroutine of this part reads and writes, and the value.
LockKey == "k1"
LockValue == JStr("v1")

CacheOf(c) ==
    CASE c = "product_cache" -> product_cache
      [] c = "link_cache" -> link_cache
      [] OTHER -> resolved_url_cache

\* The dict of cache c becomes d; the other caches stay.
CacheBecomes(c, d) ==
    /\ product_cache' = IF c = "product_cache" THEN d ELSE product_cache
    /\ link_cache' = IF c = "link_cache" THEN d ELSE link_cache
    /\ resolved_url_cache' =
           IF c = "resolved_url_cache" THEN d ELSE resolved_url_cache

LockRest == <<cacheVars, batchVars, productVars, resolveVars, urlVars, msgVars,
              otherVars>>

\* fetch_product_details, generate_affiliate_links_batch and
\* resolve_short_link start with a get on their cache; the cleanup job starts
\* with clear_expired on the product cache.
StartCall(task, c) ==
    /\ co[task].at = "idle"
    /\ co' = [co EXCEPT ![task] = [Idle EXCEPT !.at = "waiting", !.op = "get",
                                               !.c = c]]
    /\ UNCHANGED <<now, registryVars, locks, LockRest>>

StartCleanup(task) ==
    /\ co[task].at = "idle"
    /\ co' = [co EXCEPT ![task] = [Idle EXCEPT !.at = "waiting",
                                               !.op = "clear_expired",
                                               !.c = "product_cache"]]
    /\ UNCHANGED <<now, registryVars, locks, LockRest>>

\* "async with self._lock": the coroutine enters when the lock is free.
Acquire(task) ==
    /\ co[task].at = "waiting"
    /\ LockFree(locks, co[task].c)
    /\ locks' = Acquired(locks, co[task].c, task)
    /\ co' = [co EXCEPT ![task].at = "locked"]
    /\ UNCHANGED <<now, registryVars, LockRest>>

\* get, inside the lock: the test of the entry.
GetCheck(task) ==
    /\ co[task].at = "locked"
    /\ co[task].op = "get"
    /\ LET d == CacheOf(co[task].c)
       IN co' = [co EXCEPT ![task] =
                   IF LockKey \notin DOMAIN d THEN [@ EXCEPT !.at = "leaving"]
                   ELSE IF IsFresh(d[LockKey], now)
                   THEN [@ EXCEPT !.at = "leaving", !.hit = TRUE]
                   ELSE [@ EXCEPT !.at = "deleting",
                                  !.seen = [k \in {LockKey} |-> d[k]]]]
    /\ UNCHANGED <<now, registryVars, locks, LockRest>>

\* set, inside the lock: the write.
SetWrite(task) ==
    /\ co[task].at = "locked"
    /\ co[task].op = "set"
    /\ CacheBecomes(co[task].c, CacheSet(CacheOf(co[task].c), LockKey, LockValue, now))
    /\ co' = [co EXCEPT ![task].at = "leaving"]
    /\ UNCHANGED <<now, locks, LockRest>>

\* clear_expired, inside the lock: the scan for the expired keys.
SweepScan(task) ==
    /\ co[task].at = "locked"
    /\ co[task].op = "clear_expired"
    /\ LET d == CacheOf(co[task].c)
       IN co' = [co EXCEPT ![task].at = "deleting",
                           ![task].seen =
                               [k \in {x \in DOMAIN d : IsExpired(d[x], now)} |-> d[k]]]
    /\ UNCHANGED <<now, registryVars, locks, LockRest>>

\* The deletes of get and of clear_expired: the entries found expired go.
DeleteSeen(task) ==
    /\ co[task].at = "deleting"
    /\ LET d == CacheOf(co[task].c)
       IN CacheBecomes(co[task].c,
                       [k \in DOMAIN d \ DOMAIN co[task].seen |-> d[k]])
    /\ co' = [co EXCEPT ![task].at = "leaving", ![task].seen = <<>>]
    /\ UNCHANGED <<now, locks, LockRest>>

\* The exit of "async with": the lock is released, and the caller goes on: a
\* get that missed is followed by the network call, a set and a hit by the
\* return, a sweep by the sweep of the next cache.
Release(task) ==
    /\ co[task].at = "leaving"
    /\ locks' = Released(locks, co[task].c)
    /\ co' = [co EXCEPT ![task] =
                 CASE @.op = "get" /\ ~@.hit -> [@ EXCEPT !.at = "network"]
                   [] @.op = "clear_expired" /\ @.c = "product_cache" ->
                          [@ EXCEPT !.at = "waiting", !.c = "link_cache"]
                   [] @.op = "clear_expired" /\ @.c = "link_cache" ->
                          [@ EXCEPT !.at = "waiting", !.c = "resolved_url_cache"]
                   [] OTHER -> Idle]
    /\ UNCHANGED <<now, registryVars, LockRest>>

\* The vendor call or the GET ends: a success is followed by the set of the
\* result, a failure by the return.
NetworkResponds(task, ok) ==
    /\ co[task].at = "network"
    /\ co' = [co EXCEPT ![task] =
                 IF ok THEN [@ EXCEPT !.at = "waiting", !.op = "set"] ELSE Idle]
    /\ UNCHANGED <<now, registryVars, locks, LockRest>>

LockTick == Tick /\ UNCHANGED <<registryVars, locks, co, LockRest>>

NextLock ==
    \/ LockTick
    \/ \E task \in Tasks, c \in CacheNames : StartCall(task, c)
    \/ \E task \in Tasks : StartCleanup(task)
    \/ \E task \in Tasks : Acquire(task)
    \/ \E task \in Tasks : GetCheck(task)
    \/ \E task \in Tasks : SetWrite(task)
    \/ \E task \in Tasks : SweepScan(task)
    \/ \E task \in Tasks : DeleteSeen(task)
    \/ \E task \in Tasks : Release(task)
    \/ \E task \in Tasks, ok \in BOOLEAN : NetworkResponds(task, ok)

SpecLock == Init /\ [][NextLock]_vars

\* ------------------------------ two callers of the client side by side

\* Two tasks call fetch_product_details and generate_affiliate_links_batch
\* next to each other.  A call is suspended only at its vendor call: the
\* lookup before it and the parsing and the writes after it run without a
\* suspension in between, the lock of a cache being free whenever a task
\* asks for it.
RaceProductResponses ==
    {NoResponse,
     Response(ProductList(JList(<<FullProduct>>))),
     Response(ProductList(JList(<<EmptyDict>>)))}

RaceBatchResponses ==
    {NoResponse,
     Response(JList(<<JNum(1)>>)),
     Response(LinkList(JList(<<Pair(JStr("u1"), JStr("L1"))>>))),
     Response(LinkList(JList(<<Pair(JStr("u2"), JStr("L1")),
                               Pair(JStr("u1"), JStr("L2"))>>))),
     Response(LinkList(JList(<<Pair(JStr("u3"), JStr("L1")),
                               Pair(JStr("u1"), JStr(""))>>))),
     Response(LinkList(JList(<<Pair(JStr("u2"), JStr("L2")),
                               Pair(JList(<<JStr("u1")>>), JStr("L1"))>>)))}

\* The lists of target URLs of these batch calls.
RaceUrlLists == {<<"u1">>, <<"u2">>, <<"u1", "u2">>}

\* The keys whose entry differs between two dicts of a cache.
Written(before, after) ==
    {k \in DOMAIN after : k \notin DOMAIN before \/ after[k] # before[k]}

\* The task set every key of keys last.
WriterAfter(w, keys, task) ==
    [k \in DOMAIN w \cup keys |-> IF k \in keys THEN task ELSE w[k]]

\* fetch_product_details up to its vendor call.
RaceFetchStart(task, id) ==
    /\ rc[task].at \in {"idle", "returned", "raised"}
    /\ LET g == CacheGet(product_cache, id, now)
       IN /\ product_cache' = g.cache
          /\ rc' = [rc EXCEPT ![task] =
                      [at |-> IF Truthy(g.ret) THEN "returned" ELSE "api",
                       kind |-> "product", key |-> <<id>>,
                       missed |-> IF Truthy(g.ret) THEN {} ELSE {id},
                       results |-> [k \in {id} |-> g.ret],
                       pairs |-> <<>>, t |-> now]]
    /\ UNCHANGED <<now, cacheVars, link_cache, resolved_url_cache, batchVars,
                   productVars, resolveVars, urlVars, msgVars, lockVars, writer,
                   pipeVars>>

\* fetch_product_details from the response of its vendor call on.
RaceFetchResponds(task, response) ==
    /\ rc[task].at = "api"
    /\ rc[task].kind = "product"
    /\ LET id == rc[task].key[1]
           outcome == ProductDetailsFrom(response, id)
           c == StoreProduct(product_cache, id, outcome, now)
       IN /\ product_cache' = c
          /\ rc' = [rc EXCEPT ![task].at = IF outcome.raised THEN "raised"
                                           ELSE "returned",
                              ![task].results = [k \in {id} |-> outcome.value],
                              ![task].t = now]
          /\ writer' = IF ~outcome.raised /\ outcome.value # None
                       THEN WriterAfter(writer, {id}, task)
                       ELSE writer
    /\ UNCHANGED <<now, cacheVars, link_cache, resolved_url_cache, batchVars,
                   productVars, resolveVars, urlVars, msgVars, lockVars,
                   pipeVars>>

\* generate_affiliate_links_batch up to its vendor call.
RaceBatchStart(task, urls) ==
    /\ rc[task].at \in {"idle", "returned", "raised"}
    /\ LET r == CheckCacheForLinks(urls, 1, <<>>, <<>>, link_cache, now)
       IN /\ link_cache' = r.cache
          /\ rc' = [rc EXCEPT ![task] =
                      [at |-> IF r.uncached_urls = <<>> THEN "returned" ELSE "api",
                       kind |-> "batch", key |-> urls,
                       missed |-> Range(r.uncached_urls),
                       results |-> r.results_dict,
                       pairs |-> <<>>, t |-> now]]
    /\ UNCHANGED <<now, cacheVars, product_cache, resolved_url_cache, batchVars,
                   productVars, resolveVars, urlVars, msgVars, lockVars, writer,
                   pipeVars>>

\* generate_affiliate_links_batch from the response of its vendor call on.
RaceBatchResponds(task, raw_response) ==
    /\ rc[task].at = "api"
    /\ rc[task].kind = "batch"
    /\ LET parsed == ParseApiPromotionResponse(
                         IF raw_response = NoResponse THEN None
                         ELSE raw_response.body)
       IN IF parsed.raised
          THEN /\ rc' = [rc EXCEPT ![task].at = "raised", ![task].t = now]
               /\ UNCHANGED <<link_cache, writer>>
          ELSE LET u == UpdateResultsAndCache(parsed.value, 1, rc[task].results,
                                              link_cache, now)
               IN /\ link_cache' = u.cache
                  /\ rc' = [rc EXCEPT ![task].at = IF u.raised THEN "raised"
                                                   ELSE "returned",
                                      ![task].results = u.results_dict,
                                      ![task].pairs = parsed.value,
                                      ![task].t = now]
                  /\ writer' = WriterAfter(writer, Written(rc[task].results,
                                                           u.results_dict), task)
    /\ UNCHANGED <<now, cacheVars, product_cache, resolved_url_cache, batchVars,
                   productVars, resolveVars, urlVars, msgVars, lockVars,
                   pipeVars>>

RaceTick ==
    Tick /\ UNCHANGED <<cacheVars, registryVars, batchVars, productVars,
                        resolveVars, extVars>>

RaceCleanup ==
    PeriodicCacheCleanup /\ UNCHANGED <<now, cacheVars, batchVars, productVars,
                                        resolveVars, extVars>>

\* The calls for one product id and for one target URL, next to each other.
RaceLinkResponses ==
    {NoResponse,
     Response(LinkList(JList(<<Pair(JStr("u1"), JStr("L1"))>>))),
     Response(LinkList(JList(<<Pair(JStr("u1"), JStr("L2"))>>)))}

NextRace ==
    \/ RaceTick
    \/ RaceCleanup
    \/ \E task \in Tasks : RaceFetchStart(task, "1")
    \/ \E task \in Tasks, response \in RaceProductResponses :
           RaceFetchResponds(task, response)
    \/ \E task \in Tasks : RaceBatchStart(task, <<"u1">>)
    \/ \E task \in Tasks, raw_response \in RaceLinkResponses :
           RaceBatchResponds(task, raw_response)

SpecRace == Init /\ [][NextRace]_vars

\* Batch calls over lists of one or two URLs, next to each other, while the
\* clock goes from the first write up to the expiry of what it wrote.
RaceBatchTick == now < expiry_seconds /\ RaceTick

NextRaceBatch ==
    \/ RaceBatchTick
    \/ RaceCleanup
    \/ \E task \in Tasks, urls \in RaceUrlLists : RaceBatchStart(task, urls)
    \/ \E task \in Tasks, raw_response \in RaceBatchResponses :
           RaceBatchResponds(task, raw_response)

SpecRaceBatch == Init /\ [][NextRaceBatch]_vars

\* ------------------------------------------- process_product_telegram

\* The product of the pipeline and its base URL, as handle_message passes
\* them, and the target URLs of its offers.
PipelineProductId == "1"
PipelineBaseUrl ==
    UrlText(clean_aliexpress_url(Url("www.aliexpress.com", "item", "1", "", ""),
                                 "1"))
PipelineUrls ==
    GenerateOfferUrls(PipelineBaseUrl, PipelineProductId).all_urls_to_fetch

\* The vendor's product answers: none, a product with every field, a product
\* without any field, and a product whose title is null.
PipelineProductResponses ==
    {NoResponse,
     Response(ProductList(JList(<<FullProduct>>))),
     Response(ProductList(JList(<<JDict([target_sale_price |-> JStr("5")])>>))),
     Response(ProductList(JList(<<JDict([product_title |-> None])>>)))}

\* What get_product_details_by_id gives: a name with or without an image, no
\* name, or an exception.
ScrapeOutcomes ==
    {[kind |-> "pair", name |-> JStr("N"), image |-> JStr("img")],
     [kind |-> "pair", name |-> JStr("N"), image |-> None],
     [kind |-> "pair", name |-> None, image |-> JStr("img")],
     [kind |-> "pair", name |-> JStr(""), image |-> None],
     [kind |-> "raised", name |-> None, image |-> None]}

\* The vendor's link answers: none, a body the validation raises on, a link
\* of its own for the target URLs of each set of offers, the links of two
\* offers the other way round, a pair for a URL nobody asked for next to a
\* pair without link, and a pair whose source_value is a list.
PipelineLink(i) == JStr("L" \o OFFER_ORDER[i])

PipelinePairs(chosen) ==
    LET RECURSIVE from(_)
        from(i) == IF i > Len(PipelineUrls) THEN <<>>
                   ELSE IF i \in chosen
                        THEN <<Pair(JStr(PipelineUrls[i]), PipelineLink(i))>>
                             \o from(i + 1)
                        ELSE from(i + 1)
    IN from(1)

PipelineLinkResponses ==
    {NoResponse, Response(JList(<<JNum(1)>>))}
    \cup {Response(LinkList(JList(PipelinePairs(chosen)))) :
             chosen \in (SUBSET (1..Len(PipelineUrls))) \ {{}}}
    \cup {Response(LinkList(JList(<<Pair(JStr(PipelineUrls[2]), PipelineLink(1)),
                                    Pair(JStr(PipelineUrls[1]), PipelineLink(2))>>))),
          Response(LinkList(JList(<<Pair(JStr("u3"), JStr("L1")),
                                    Pair(JStr(PipelineUrls[3]), JStr(""))>>))),
          Response(LinkList(JList(<<Pair(JStr(PipelineUrls[4]), PipelineLink(3)),
                                    Pair(JList(<<JStr("u1")>>), JStr("L1"))>>)))}

\* Lines 281-345 up to the choice of the reply: the mapping of the batch
\* result, the formatting of the message, and the branch on success_count.
\* An exception of the formatting goes to the except clause.
MappedAndFormatted(p, all_links_dict) ==
    LET m == MapLinks(p.target_urls_map, all_links_dict)
        f == FormatResponseMessage(p.info, m.generated_links)
    IN [p EXCEPT !.all_links_dict = all_links_dict,
                 !.generated_links = m.generated_links,
                 !.success_count = m.success_count,
                 !.text = f.value,
                 !.exc = f.exc,
                 !.at = IF f.raised THEN "notice"
                        ELSE IF HasOffers(m.success_count) THEN "send"
                        ELSE "no_offers"]

\* Lines 262-275: the offer URLs and generate_affiliate_links_batch up to its
\* vendor call; when every URL is cached the call returns at once.
RequestLinks(p, product_info, c, t) ==
    LET g == GenerateOfferUrls(p.base_url, p.product_id)
        r == CheckCacheForLinks(g.all_urls_to_fetch, 1, <<>>, <<>>, c, t)
        q == [p EXCEPT !.info = product_info,
                       !.target_urls_map = g.target_urls_map,
                       !.all_urls_to_fetch = g.all_urls_to_fetch,
                       !.cached = r.results_dict,
                       !.uncached = r.uncached_urls,
                       !.requested = TRUE]
    IN [pl |-> IF r.uncached_urls = <<>>
               THEN MappedAndFormatted(q, r.results_dict)
               ELSE [q EXCEPT !.at = "batch_api"],
        cache |-> r.cache]

\* The call begins: fetch_product_details looks the id up in the product
\* cache, and a hit is the record of the product.
PipelineStart(id, base) ==
    /\ pl.at \in {"idle", "done", "raised"}
    /\ LET g == CacheGet(product_cache, id, now)
           p == [NoPipeline EXCEPT !.product_id = id, !.base_url = base,
                                   !.details = g.ret]
       IN /\ product_cache' = g.cache
          /\ IF Truthy(g.ret)
             THEN LET r == RequestLinks(p, ApiInfo(g.ret, id), link_cache, now)
                  IN pl' = r.pl /\ link_cache' = r.cache
             ELSE pl' = [p EXCEPT !.at = "product_api"] /\ UNCHANGED link_cache
    /\ UNCHANGED <<now, cacheVars, resolved_url_cache, batchVars, productVars,
                   resolveVars, urlVars, msgVars, lockVars, raceVars>>

\* The vendor answers fetch_product_details: a record goes on to the links,
\* no record to the scraping fallback.
PipelineProductResponds(response) ==
    /\ pl.at = "product_api"
    /\ LET outcome == ProductDetailsFrom(response, pl.product_id)
           p == [pl EXCEPT !.details = outcome.value]
       IN /\ product_cache' = StoreProduct(product_cache, pl.product_id, outcome,
                                           now)
          /\ IF outcome.raised
             THEN /\ pl' = [p EXCEPT !.at = "notice", !.exc = outcome.exc]
                  /\ UNCHANGED link_cache
             ELSE IF NeedsScraping(outcome.value)
             THEN pl' = [p EXCEPT !.at = "scrape"] /\ UNCHANGED link_cache
             ELSE LET r == RequestLinks(p, ApiInfo(outcome.value, pl.product_id),
                                        link_cache, now)
                  IN pl' = r.pl /\ link_cache' = r.cache
    /\ UNCHANGED <<now, cacheVars, resolved_url_cache, batchVars, productVars,
                   resolveVars, urlVars, msgVars, lockVars, raceVars>>

\* The scraping fallback ends in the executor.
PipelineScraped(scraped) ==
    /\ pl.at = "scrape"
    /\ LET o == ScrapedInfo(scraped, pl.product_id)
           p == [pl EXCEPT !.scrapes = pl.scrapes + 1, !.scraped = scraped]
       IN IF o.raised
          THEN /\ pl' = [p EXCEPT !.at = "notice", !.exc = o.exc]
               /\ UNCHANGED link_cache
          ELSE LET r == RequestLinks(p, o.value, link_cache, now)
               IN pl' = r.pl /\ link_cache' = r.cache
    /\ UNCHANGED <<now, cacheVars, product_cache, resolved_url_cache, batchVars,
                   productVars, resolveVars, urlVars, msgVars, lockVars, raceVars>>

\* The vendor answers generate_affiliate_links_batch.
PipelineBatchResponds(raw_response) ==
    /\ pl.at = "batch_api"
    /\ LET parsed == ParseApiPromotionResponse(
                         IF raw_response = NoResponse THEN None
                         ELSE raw_response.body)
       IN IF parsed.raised
          THEN /\ pl' = [pl EXCEPT !.at = "notice", !.exc = parsed.exc]
               /\ UNCHANGED link_cache
          ELSE LET u == UpdateResultsAndCache(parsed.value, 1, pl.cached,
                                              link_cache, now)
                   p == [pl EXCEPT !.pairs = parsed.value]
               IN /\ link_cache' = u.cache
                  /\ pl' = IF u.raised
                           THEN [p EXCEPT !.at = "notice", !.exc = u.exc]
                           ELSE MappedAndFormatted(p, u.results_dict)
    /\ UNCHANGED <<now, cacheVars, product_cache, resolved_url_cache, batchVars,
                   productVars, resolveVars, urlVars, msgVars, lockVars, raceVars>>

PipelineRest ==
    UNCHANGED <<now, cacheVars, registryVars, batchVars, productVars,
                resolveVars, urlVars, msgVars, lockVars, raceVars>>

\* _send_product_message: the photo or the text; a failure goes to the
\* fallback send of its except clause.
SendProductMessageEnds(ok) ==
    /\ pl.at = "send"
    /\ pl' = [pl EXCEPT
                 !.sent = Append(pl.sent,
                                 [kind |-> SendKind(PyGet(pl.info, "image_url", None)),
                                  text |-> pl.text, ok |-> ok]),
                 !.at = IF ok THEN "done" ELSE "fallback"]
    /\ PipelineRest

\* The fallback send is outside every try of _send_product_message: its
\* failure reaches the except clause of process_product_telegram.
FallbackSendEnds(ok) ==
    /\ pl.at = "fallback"
    /\ pl' = [pl EXCEPT
                 !.sent = Append(pl.sent, [kind |-> "fallback", text |-> pl.text,
                                           ok |-> ok]),
                 !.exc = IF ok THEN "" ELSE "TelegramError",
                 !.at = IF ok THEN "done" ELSE "notice"]
    /\ PipelineRest

\* The message that no offer was found.
NoOffersSendEnds(ok) ==
    /\ pl.at = "no_offers"
    /\ pl' = [pl EXCEPT
                 !.sent = Append(pl.sent, [kind |-> "no offers", text |-> None,
                                           ok |-> ok]),
                 !.exc = IF ok THEN "" ELSE "TelegramError",
                 !.at = IF ok THEN "done" ELSE "notice"]
    /\ PipelineRest

\* The except clause of process_product_telegram: the error notice.
ErrorNoticeEnds(ok) ==
    /\ pl.at = "notice"
    /\ pl' = [pl EXCEPT
                 !.sent = Append(pl.sent, [kind |-> "error notice", text |-> None,
                                           ok |-> ok]),
                 !.at = AfterErrorNotice(ok)]
    /\ PipelineRest

NextPipeline ==
    \/ PipelineStart(PipelineProductId, PipelineBaseUrl)
    \/ \E response \in PipelineProductResponses : PipelineProductResponds(response)
    \/ \E scraped \in ScrapeOutcomes : PipelineScraped(scraped)
    \/ \E raw_response \in PipelineLinkResponses :
           PipelineBatchResponds(raw_response)
    \/ \E ok \in BOOLEAN : SendProductMessageEnds(ok)
    \/ \E ok \in BOOLEAN : FallbackSendEnds(ok)
    \/ \E ok \in BOOLEAN : NoOffersSendEnds(ok)
    \/ \E ok \in BOOLEAN : ErrorNoticeEnds(ok)

SpecPipeline == Init /\ [][NextPipeline]_vars

\* ------------------------------------------------------------------ claims

\* C1: a get(k) at t1 that follows set(k, v) at t0, with no other set(k, .) in
\* between, returns v when t1 - t0 < ttl and None when t1 - t0 >= ttl, whatever
\* gets and sweeps ran in between.
C1_TTL ==
    (cache_op.op = "get" /\ cache_op.key \in DOMAIN last_set) =>
        LET s == last_set[cache_op.key]
        IN cache_op.ret = IF cache_op.t - s.timestamp < expiry_seconds
                          THEN s.item ELSE None

\* A get exactly at the boundary t1 - t0 = ttl, after an intermediate sweep-free
\* history, and a get before it.
C1_Witness ==
    /\ cache_op.op = "get"
    /\ cache_op.key \in DOMAIN last_set
    /\ cache_op.t - last_set[cache_op.key].timestamp = expiry_seconds
    /\ cache_op.ret = None

C3_SingleCall ==
    /\ Len(b_requests) <= 1
    /\ (b_pc # "idle" /\ uncached_urls # <<>>) =>
           b_requests = <<PrepareApiSourceValues(uncached_urls)>>

\* A finished invocation with several uncached URLs.
C3_Witness ==
    /\ b_pc = "returned"
    /\ Len(uncached_urls) >= 2
    /\ Len(b_requests) = 1

\* C4: when every input URL had an unexpired entry at its lookup, the call
\* issues no vendor request and returns each URL with its cached link.
C4_CacheHitShortCircuit ==
    (b_pc # "idle" /\ \A u \in DOMAIN b_fresh : b_fresh[u].hit) =>
        /\ b_pc = "returned"
        /\ b_requests = <<>>
        /\ results_dict = [u \in DOMAIN b_fresh |-> b_fresh[u].item]

\* A call over two cached URLs.
C4_Witness ==
    /\ b_pc = "returned"
    /\ Cardinality(DOMAIN b_fresh) = 2
    /\ \A u \in DOMAIN b_fresh : b_fresh[u].hit
    /\ b_requests = <<>>

\* Every returned item has a source_value that is a string or is missing.
WellFormedPairs(pairs) ==
    \A i \in 1..Len(pairs) :
        PyGet(pairs[i], "source_value", None).t \in {"str", "null"}

\* C5: each uncached URL gets the link of the vendor's pair for it, and None
\* without such a pair; a list of well-formed pairs, however few, raises nothing.
C5_PartialBatch ==
    /\ b_pc = "returned" =>
           \A u \in Range(uncached_urls) :
               results_dict[u] = VendorLinkFor(u, api_links_data)
    /\ (b_pc \in {"returned", "raised"} /\ api_links_data # <<>>
          /\ WellFormedPairs(api_links_data)) => b_pc = "returned"

\* Two uncached URLs, of which the vendor covered one.
C5_Witness ==
    /\ b_pc = "returned"
    /\ Cardinality(Range(uncached_urls)) = 2
    /\ \E u, w \in Range(uncached_urls) :
           /\ results_dict[u] # None
           /\ results_dict[w] = None
           /\ VendorLinkFor(w, api_links_data) = None

\* C6: a batch call never propagates an exception.
C6_NeverPropagates == b_pc # "raised"

\* A fetch_product_details call that issued its vendor call, got a failing
\* response and ended.
FetchFailed ==
    /\ p_pc \in {"returned", "raised"}
    /\ p_requests = 1
    /\ p_response \in ProductFailureResponses

\* The dict c after the lazy eviction a get(key) at instant t performs.
LazilyEvicted(c, key, t) ==
    IF key \in DOMAIN c /\ t - c[key].timestamp >= expiry_seconds
    THEN DictDel(c, key) ELSE c

\* C7 as stated: a failing fetch_product_details returns None, raises nothing
\* and leaves the product cache exactly as it was when it was called.
C7_FailureLeavesCacheAsItWas ==
    FetchFailed =>
        /\ p_pc = "returned"
        /\ p_ret = None
        /\ product_cache = p_cache0

\* C7 as amended: a failing fetch_product_details returns None, raises
\* nothing and writes nothing to the product cache; the one change it can
\* make is the eviction, by its own lookup, of an expired entry of its id.
C7_FailureWritesNothing ==
    FetchFailed =>
        /\ p_pc = "returned"
        /\ p_ret = None
        /\ product_cache = LazilyEvicted(p_cache0, product_id, p_t0)

\* A failing call, on a response whose shape makes the validation raise, that
\* found and evicted an expired entry of its product id.
C7_Witness ==
    /\ FetchFailed
    /\ p_response = Response(ProductList(JStr("abc")))
    /\ product_id \in DOMAIN p_cache0
    /\ product_id \notin DOMAIN product_cache

\* C8: a returned pair whose source_value is not one of the uncached URLs sent
\* to the vendor changes neither results_dict nor the link cache.
C8_UnrequestedIgnored ==
    [][(b_pc = "api" /\ b_pc' \in {"returned", "raised"}) =>
          \A u \in SourceValues \ Range(uncached_urls) :
              /\ u \in DOMAIN results_dict => results_dict'[u] = results_dict[u]
              /\ u \in DOMAIN link_cache <=> u \in DOMAIN link_cache'
              /\ u \in DOMAIN link_cache => link_cache'[u] = link_cache[u]]_vars

\* C9: a resolve_short_link(s) that starts while the entry written by an
\* earlier successful resolution of s is unexpired returns that URL and issues
\* no HTTP GET.
C9_ResolutionCached ==
    (r_pc # "idle" /\ r_prev.done /\ r_t0 - r_prev.t < expiry_seconds) =>
        /\ r_pc = "returned"
        /\ r_ret = r_prev.url
        /\ r_gets = 0

\* A second resolution of a short URL, later than the first and within the TTL.
C9_Witness ==
    /\ r_pc = "returned"
    /\ r_prev.done
    /\ r_t0 > r_prev.t
    /\ r_ret = r_prev.url
    /\ r_gets = 0

\* A resolution that reached its validation with a final URL that fails it.
ResolvedToInvalid ==
    /\ r_pc \in {"returned", "raised"}
    /\ final_url # None
    /\ ~(MatchesStandardDomain(final_url) /\ IsStr(extract_product_id(final_url)))

\* Every entry of the resolved-URL cache maps to a URL that matches the
\* standard domain pattern and carries a product id.
OnlyValidTargetsCached ==
    \A s \in DOMAIN resolved_url_cache :
        /\ MatchesStandardDomain(resolved_url_cache[s].item)
        /\ IsStr(extract_product_id(resolved_url_cache[s].item))

\* C11 as stated: the resolved-URL cache only holds valid targets, and a
\* resolution whose final URL fails the validation returns None and leaves
\* the cache exactly as it was when it was called.
C11_InvalidLeavesCacheAsItWas ==
    /\ OnlyValidTargetsCached
    /\ ResolvedToInvalid =>
           /\ r_pc = "returned"
           /\ r_ret = None
           /\ resolved_url_cache = r_cache0

\* C11 as amended: the resolved-URL cache only holds valid targets, and a
\* resolution whose final URL fails the validation returns None and writes
\* nothing; the one change it can make is the eviction, by its own lookup,
\* of an expired entry of its short URL.
C11_OnlyValidTargets ==
    /\ OnlyValidTargetsCached
    /\ ResolvedToInvalid =>
           /\ r_pc = "returned"
           /\ r_ret = None
           /\ resolved_url_cache = LazilyEvicted(r_cache0, short_url, r_t0)

\* A resolution whose country-corrected GET ended on a URL outside the
\* standard domain, while another short URL is cached.
C11_Witness ==
    /\ ResolvedToInvalid
    /\ r_gets = 2
    /\ ~MatchesStandardDomain(final_url)
    /\ DOMAIN resolved_url_cache # {}
    /\ short_url \notin DOMAIN resolved_url_cache

\* C12: one resolve_short_link call issues at most two GETs, and none when
\* its lookup found an unexpired entry; one fetch_product_details call and one
\* generate_affiliate_links_batch call issue at most one vendor call each.
C12_BoundedRetry ==
    /\ r_gets <= 2
    /\ (r_pc # "idle" /\ short_url \in DOMAIN r_cache0
          /\ r_t0 - r_cache0[short_url].timestamp < expiry_seconds) => r_gets = 0
    /\ p_requests <= 1
    /\ Len(b_requests) <= 1

\* A resolution that went through the country-corrected re-fetch, next to a
\* product call and a batch call that each reached the vendor, all ended.
C12_Witness ==
    /\ r_pc = "returned" /\ r_gets = 2
    /\ p_pc = "returned" /\ p_requests = 1
    /\ b_pc = "returned" /\ Len(b_requests) = 1 /\ Len(uncached_urls) = 2

\* The id the priority of the patterns gives: the productIds value when all
\* digits, else /item/<digits>.html, else /p/<segment>/<digits>.html, else
\* product/<digits>, else None.
IdByPriority(url) ==
    IF IsDigit(url.productIds) THEN JStr(url.productIds)
    ELSE IF PRODUCT_ID_REGEX(url.path) # "" THEN JStr(PRODUCT_ID_REGEX(url.path))
    ELSE IF AltPPattern(url.path) # "" THEN JStr(AltPPattern(url.path))
    ELSE IF AltProductPattern(url.path) # "" THEN JStr(AltProductPattern(url.path))
    ELSE None

\* C13: extract_product_id returns the id of the first pattern that matches,
\* in the order productIds, /item/, /p/, product/, and None without a match.
C13_PatternPriority ==
    u_op = "extract" => u_ret = IdByPriority(u_url)

\* C14: clean_aliexpress_url keeps scheme and host, sets the path to
\* /item/<id>.html and drops query and fragment; URLs of the same scheme and
\* host give the same base URL for the same id; cleaning the result again
\* with the same id returns it unchanged.
C14_CleanBaseUrl ==
    u_op = "clean" =>
        /\ u_ret = UrlOf(u_url.scheme, u_url.host, <<"item", u_id \o ".html">>,
                         "", "", "")
        /\ \A other \in CleanInputs :
               (other.scheme = u_url.scheme /\ other.host = u_url.host) =>
                   clean_aliexpress_url(other, u_id) = u_ret
        /\ u_again = u_ret

\* A clean of a URL with another path, a query and a fragment, for an id that
\* is not the one its path carries.
C14_Witness ==
    /\ u_op = "clean"
    /\ u_url.path = <<"p", "x", "2.html">>
    /\ u_url.productIds = "abc" /\ u_url.shipto = "US" /\ u_url.fragment = "f"
    /\ u_id = "1"
    /\ u_ret = UrlOf(u_url.scheme, u_url.host, <<"item", "1.html">>, "", "", "")
    /\ u_again = u_ret

\* C15: the tasks of a message have distinct product ids, and the task of an
\* id carries the base URL of the first URL, in message order, that yielded
\* this id, whether a standard URL or a resolved short link.
C15_DedupByProductId ==
    /\ \A i, j \in 1..Len(tasks) :
           tasks[i].product_id = tasks[j].product_id => i = j
    /\ \A i \in 1..Len(tasks) :
           \E k \in 1..Len(m_yield) :
               /\ m_yield[k] = [product_id |-> JStr(tasks[i].product_id),
                                base_url |-> tasks[i].base_url]
               /\ \A l \in 1..(k - 1) : m_yield[l].product_id # m_yield[k].product_id

\* Three URLs of one product: a short link resolved to it, then a standard
\* URL on another host and one more; one task, with the base URL of the first.
C15_Witness ==
    /\ m_pc = "prepared"
    /\ Len(potential_urls) = 3
    /\ MatchesShortLinkDomain(potential_urls[1])
    /\ potential_urls[2].host = "fr.aliexpress.com"
    /\ \A k \in 1..3 : m_yield[k].product_id = JStr("1")
    /\ m_yield[2].base_url # m_yield[1].base_url
    /\ Len(tasks) = 1
    /\ tasks[1].base_url = m_yield[1].base_url

\* C18: the loading indicator is deleted only when every product pipeline of
\* the message has finished or failed.
C18_JoinBeforeCleanup ==
    loading = "deleted" =>
        \A i \in 1..Len(t_status) : t_status[i] \in {"finished", "failed"}

\* Two pipelines, one finished and one failed, and the indicator deleted.
C18_Witness ==
    /\ loading = "deleted"
    /\ Len(tasks) = 2
    /\ \E i, j \in 1..2 : t_status[i] = "finished" /\ t_status[j] = "failed"

\* The candidate URL as the loop reads it: with https:// put before a known
\* domain that has no scheme.
AsRead(url) ==
    IF url.scheme = "" /\ StartsWithKnownDomain(url)
    THEN [url EXCEPT !.scheme = "https"] ELSE url

\* C19: no candidate URL makes the handler raise; every URL of the message
\* is gone through, and every standard URL that carries a product id, and
\* every short link that resolved to one, has a task for this id.
C19_MalformationIsLocal ==
    /\ ~(m_pc = "raised" /\ m_exc = "ValueError")
    /\ m_pc \in {"prepared", "gather", "done"} =>
           /\ Len(m_yield) = Len(potential_urls)
           /\ \A k \in 1..Len(potential_urls) :
                  LET url == AsRead(potential_urls[k])
                      id == IF MatchesStandardDomain(url) THEN IdByPriority(url)
                            ELSE m_yield[k].product_id
                  IN IsStr(id) => \E i \in 1..Len(tasks) : tasks[i].product_id = id.s

\* The coroutine is inside an operation of cache c.
Inside(task, c) ==
    co[task].c = c /\ co[task].at \in {"locked", "deleting", "leaving"}

\* C16: at most one coroutine is inside get, set or clear_expired of one
\* cache; the entries a get or a sweep found expired are still as they were
\* found when it deletes them.
C16_MutualExclusion ==
    /\ \A c \in CacheNames : Cardinality({task \in Tasks : Inside(task, c)}) <= 1
    /\ \A task \in Tasks :
           co[task].at = "deleting" =>
               \A k \in DOMAIN co[task].seen :
                   /\ k \in DOMAIN CacheOf(co[task].c)
                   /\ CacheOf(co[task].c)[k] = co[task].seen[k]

\* One coroutine between the check and the delete of an expired entry while
\* the other waits at the lock of the same cache to set this key, and is
\* inside another cache at another moment.
C16_Witness ==
    /\ co["t1"].at = "deleting"
    /\ co["t1"].op = "get"
    /\ co["t2"].at = "waiting"
    /\ co["t2"].op = "set"
    /\ co["t2"].c = co["t1"].c

\* C17: a coroutine that awaits a vendor call or a GET holds the lock of no
\* cache, so a coroutine waiting at a lock is never kept out by it.
C17_NoLockAcrossNetwork ==
    \A task \in Tasks :
        co[task].at = "network" => \A c \in CacheNames : locks[c] # task

\* One coroutine awaits its network call while the other is inside the same
\* cache.
C17_Witness ==
    /\ co["t1"].at = "network"
    /\ co["t2"].at = "locked"
    /\ co["t2"].c = co["t1"].c
    /\ locks[co["t1"].c] = "t2"

\* C20: clear_expired at instant t removes the entries of age >= ttl and no
\* other, returns their number and leaves the other entries as they were;
\* no entry of age >= ttl at t is left.
C20_SweepExact ==
    [][(cache_op' # cache_op /\ cache_op'.op = "clear_expired") =>
          LET old == {k \in DOMAIN cache : now - cache[k].timestamp >= expiry_seconds}
          IN /\ DOMAIN cache' = DOMAIN cache \ old
             /\ \A k \in DOMAIN cache' : cache'[k] = cache[k]
             /\ cache_op'.ret = JNum(Cardinality(old))
             /\ \A k \in DOMAIN cache' :
                    now - cache'[k].timestamp < expiry_seconds]_vars

\* A sweep that removed one entry, exactly at age ttl, and kept a younger one.
C20_Witness ==
    /\ cache_op.op = "clear_expired"
    /\ cache_op.ret = JNum(1)
    /\ Cardinality(DOMAIN cache) = 1
    /\ \E k \in DOMAIN last_set :
           k \notin DOMAIN cache /\ cache_op.t - last_set[k].timestamp = expiry_seconds

\* C10: when the first GET ends in an exception or a status other than 200,
\* the resolution returns None, raises nothing and leaves the resolved-URL
\* cache unwritten.
C10_ResolveDegrades ==
    [][(r_pc = "get1" /\ r_pc' # "get1"
          /\ (r_first'.kind = "exc" \/ r_first'.status # 200)) =>
          /\ r_pc' = "returned"
          /\ r_ret' = None
          /\ resolved_url_cache' = resolved_url_cache]_vars

\* A resolution that ended on an exception other than a timeout or a client
\* error, with another short URL cached.
C10_Witness ==
    /\ r_pc = "returned"
    /\ r_first.kind = "exc"
    /\ r_first.exc = "ValueError"
    /\ r_ret = None
    /\ DOMAIN resolved_url_cache # {}
    /\ short_url \notin DOMAIN resolved_url_cache

\* The step is a clear_expired on the cache used on its own.
IsSweepStep == cache_op'.op = "clear_expired" /\ last_sweep'.done /\ now' = now
               /\ last_set' = last_set /\ cache_ns' = cache_ns /\ ns_ret' = ns_ret

\* C21 as stated: a clear_expired that follows another clear_expired, with
\* no set between the two, returns 0.
C21_SecondSweepZero ==
    [][(IsSweepStep /\ last_sweep.done) => cache_op'.ret = JNum(0)]_vars

\* C21 as amended: a clear_expired that follows another one, with no set
\* between the two, returns the number of entries that reached age ttl since
\* the first one: 0 when the clock reads the same at both calls.
C21_SecondSweepCountsNewlyExpired ==
    [][(IsSweepStep /\ last_sweep.done) =>
          /\ cache_op'.ret =
                 JNum(Cardinality({k \in DOMAIN cache :
                                     /\ now - cache[k].timestamp >= expiry_seconds
                                     /\ last_sweep.t - cache[k].timestamp < expiry_seconds}))
          /\ now = last_sweep.t => cache_op'.ret = JNum(0)]_vars

\* A second sweep at the instant of the first, which had removed an entry
\* and kept one, with only gets in between.
C21_Witness ==
    /\ cache_op.op = "clear_expired"
    /\ cache_op.ret = JNum(0)
    /\ cache_op.t = expiry_seconds
    /\ last_sweep = [done |-> TRUE, t |-> expiry_seconds, n |-> 2, removed |-> 1]
    /\ Cardinality(DOMAIN cache) = 1
    /\ cache_ns # cache

\* C22: at every instant, get treats an entry as absent exactly when
\* clear_expired would remove it; and every get returns on the cache that is
\* swept what it returns on the same cache never swept.
C22_LazyAndSweepAgree ==
    /\ \A c \in {cache, cache_ns} : \A k \in DOMAIN c :
           (CacheGet(c, k, now).ret = None)
               <=> (k \notin DOMAIN CacheClearExpired(c, now).cache)
    /\ cache_op.op = "get" => cache_op.ret = ns_ret

\* A get that is served after a sweep removed the entry of the other key,
\* which the cache never swept still holds.
C22_Witness ==
    /\ cache_op.op = "get"
    /\ cache_op.ret # None
    /\ ns_ret = cache_op.ret
    /\ last_sweep.done /\ last_sweep.removed = 1
    /\ Cardinality(DOMAIN cache) = 1
    /\ Cardinality(DOMAIN cache_ns) = 2

\* The step is a get on the cache used on its own.
IsGetStep == cache_op'.op = "get" /\ cache_op'.t = now /\ now' = now
             /\ last_set' = last_set /\ last_sweep' = last_sweep

\* C23: a get(k) that finds an entry of age >= ttl removes this entry and
\* returns None; a get(k) that finds a younger entry, or none, leaves the dict
\* as it is; the entries of the other keys stay as they are in both cases.
C23_GetEffect ==
    [][IsGetStep =>
          LET k == cache_op'.key
          IN /\ IF k \in DOMAIN cache
                      /\ now - cache[k].timestamp >= expiry_seconds
                THEN /\ k \notin DOMAIN cache'
                     /\ cache_op'.ret = None
                ELSE cache' = cache
             /\ \A x \in Keys \ {k} :
                    /\ x \in DOMAIN cache' <=> x \in DOMAIN cache
                    /\ x \in DOMAIN cache => cache'[x] = cache[x]]_vars

\* A get that evicted the entry of its key, of age exactly ttl, next to a
\* younger entry of the other key.
C23_Witness ==
    /\ cache_op.op = "get"
    /\ cache_op.ret = None
    /\ cache_op.key \in DOMAIN last_set
    /\ cache_op.t - last_set[cache_op.key].timestamp = expiry_seconds
    /\ ~last_sweep.done
    /\ cache_op.key \notin DOMAIN cache
    /\ \E x \in DOMAIN cache : cache[x].timestamp > 0

\* C24: after set(k, v) at instant t the entry of k is (v, t), whatever entry
\* k had; a get of k returns the value of the latest set while younger than
\* ttl counted from this set, and None from then on.
C24_SetOverwrites ==
    /\ cache_op.op = "set" =>
           /\ cache_op.key \in DOMAIN cache
           /\ cache[cache_op.key] = [item |-> last_set[cache_op.key].item,
                                      timestamp |-> cache_op.t]
    /\ (cache_op.op = "get" /\ cache_op.key \in DOMAIN last_set) =>
           (cache_op.ret = last_set[cache_op.key].item
               <=> cache_op.t < last_set[cache_op.key].timestamp + expiry_seconds)

\* A key set again before its expiry, and read when the first set is of age
\* ttl or more and the latest is not.
C24_Witness ==
    /\ cache_op.op = "get"
    /\ cache_op.key \in DOMAIN last_set
    /\ first_set[cache_op.key] < last_set[cache_op.key].timestamp
    /\ last_set[cache_op.key].timestamp - first_set[cache_op.key] < expiry_seconds
    /\ cache_op.t - first_set[cache_op.key] >= expiry_seconds
    /\ cache_op.ret = last_set[cache_op.key].item

\* C25: a fetch_product_details that finds an unexpired record returns it and
\* issues no vendor call; one that finds none issues exactly one; a response
\* that passes the validation makes the call return a record, and a call
\* for the same id that starts within the ttl of this fetch returns the same
\* record without a vendor call.
C25_FetchCachesSuccess ==
    /\ (p_pc # "idle" /\ product_id \in DOMAIN p_cache0
          /\ p_t0 - p_cache0[product_id].timestamp < expiry_seconds) =>
           /\ p_pc = "returned"
           /\ p_ret = p_cache0[product_id].item
           /\ p_requests = 0
    /\ p_pc = "api" => p_requests = 1
    /\ (p_pc \in {"returned", "raised"} /\ p_requests = 1
          /\ p_response \in ProductSuccessResponses) =>
           /\ p_pc = "returned"
           /\ p_ret # None
           /\ product_id \in DOMAIN last_fetched => last_fetched[product_id].record = p_ret
    /\ (p_pc # "idle" /\ p_prev.done /\ p_t0 - p_prev.t < expiry_seconds) =>
           /\ p_pc = "returned"
           /\ p_ret = p_prev.record
           /\ p_requests = 0

\* A second call for a product id, later than the vendor fetch that stored
\* its record and within the ttl, while the other id has a record too.
C25_Witness ==
    /\ p_pc = "returned"
    /\ p_prev.done
    /\ p_t0 > p_prev.t
    /\ p_prev.t > 0
    /\ p_ret = p_prev.record
    /\ p_requests = 0
    /\ Cardinality(DOMAIN product_cache) = 2

\* The vendor call of the batch ended with no response or with a body of one
\* of the listed failures.
BatchCallFailed ==
    /\ b_pc = "api" /\ b_pc' # "api"
    /\ b_failure' \in ListedFailures

\* C26: when the vendor call of a batch fails at a validation layer, the call
\* returns with every uncached URL mapped to None and every URL served from
\* the link cache mapped to its cached link, and the link cache stays as it is.
C26_BatchFailureKeepsCached ==
    [][BatchCallFailed =>
          /\ b_pc' = "returned"
          /\ DOMAIN results_dict' = Range(target_urls)
          /\ \A u \in Range(target_urls) :
                 results_dict'[u] = IF b_fresh[u].hit THEN b_fresh[u].item ELSE None
          /\ link_cache' = link_cache]_vars

\* The step starts a batch call.
IsBatchStart == b_pc # "api" /\ now' = now /\ batchVars' # batchVars

\* C27: a link the vendor returned for a URL it was sent is written to the
\* link cache under this URL; the entry stays while it is unexpired; a later
\* call whose input has the URL while the entry is unexpired takes the link
\* from the cache and does not send the URL to the vendor; and a call with the
\* input of the call before it, which mapped every URL to a link, issues no
\* vendor request and returns the same mapping while the entries are unexpired.
C27_LinksReusedByExactUrl ==
    [][/\ (b_pc = "api" /\ b_pc' = "returned") =>
              \A u \in Range(uncached_urls) :
                  VendorLinkFor(u, api_links_data') # None =>
                      /\ u \in DOMAIN link_cache'
                      /\ link_cache'[u] = [item |-> VendorLinkFor(u, api_links_data'),
                                            timestamp |-> now]
       /\ \A u \in DOMAIN link_cache :
              now' - link_cache[u].timestamp < expiry_seconds =>
                  /\ u \in DOMAIN link_cache'
                  /\ link_cache'[u].timestamp >= link_cache[u].timestamp
       /\ IsBatchStart =>
              \A u \in Range(target_urls') :
                  (u \in DOMAIN link_cache
                     /\ now - link_cache[u].timestamp < expiry_seconds) =>
                      /\ u \notin Range(uncached_urls')
                      /\ \A i \in 1..Len(b_requests') : u \notin Range(b_requests'[i])
                      /\ results_dict'[u] = link_cache[u].item
       /\ (IsBatchStart /\ b_pc = "returned" /\ target_urls' = target_urls
             /\ \A u \in Range(target_urls) :
                    /\ Truthy(results_dict[u])
                    /\ u \in DOMAIN link_cache
                    /\ now - link_cache[u].timestamp < expiry_seconds) =>
              /\ b_pc' = "returned"
              /\ b_requests' = <<>>
              /\ results_dict' = results_dict]_vars

\* A call over two URLs that issued no vendor request and took both links
\* from entries written at two earlier instants.
C27_Witness ==
    /\ b_pc = "returned"
    /\ b_requests = <<>>
    /\ Cardinality(Range(target_urls)) = 2
    /\ \A u \in Range(target_urls) :
           /\ u \in DOMAIN link_cache
           /\ link_cache[u].timestamp < now
           /\ results_dict[u] = link_cache[u].item
    /\ \E u, w \in Range(target_urls) :
           link_cache[u].timestamp # link_cache[w].timestamp

\* C28: a resolution issues its second GET only when the URL of the first
\* response carries the shipping-country parameter with a value other than
\* the configured country; with the parameter absent or equal to it, the
\* resolution issues exactly one GET.
C28_RefetchOnlyOnMismatch ==
    (r_first.kind = "response" /\ r_first.status = 200) =>
        IF r_first.url.shipto \in {"", query_country}
        THEN r_gets = 1
        ELSE r_gets = 2

\* C29: when the country-corrected GET raises an exception or ends with a
\* status other than 200, the resolution still returns normally with the
\* first result (normalised, its country rewritten) as its final URL, and
\* when that URL is a valid product URL it is returned and cached under the
\* short URL.
SecondGetFailed ==
    /\ r_pc \in {"returned", "raised"}
    /\ r_gets = 2
    /\ (r_second.kind = "exc" \/ r_second.status # 200)

C29_SecondFailureNonFatal ==
    SecondGetFailed =>
        LET first_result == SetShipto(ReplaceUsDomain(r_first.url))
        IN /\ r_pc = "returned"
           /\ final_url = first_result
           /\ IsValidTarget(ReplaceUsDomain(r_first.url)) =>
                  /\ r_ret = first_result
                  /\ short_url \in DOMAIN last_resolved =>
                         /\ short_url \in DOMAIN resolved_url_cache
                         /\ resolved_url_cache[short_url].item = first_result
                         /\ resolved_url_cache[short_url].timestamp
                                = last_resolved[short_url].t

C29_Witness ==
    /\ SecondGetFailed
    /\ r_second.kind = "exc"
    /\ r_second.exc = "TimeoutError"
    /\ HasUsDomain(r_first.url)
    /\ r_ret = final_url
    /\ short_url \in DOMAIN resolved_url_cache
    /\ resolved_url_cache[short_url].item = final_url

\* C30: no URL a resolution returns, and no URL in the resolved-URL cache,
\* carries the ".us" regional host: the host is replaced by the ".com" host
\* on every successful path.
C30_NoUsHostReturnedOrCached ==
    /\ (r_pc = "returned" /\ r_ret # None) => ~HasUsDomain(r_ret)
    /\ \A s \in DOMAIN resolved_url_cache :
           ~HasUsDomain(resolved_url_cache[s].item)

\* C35: a step that is not a set neither adds an entry nor changes one, so
\* neither get nor clear_expired moves a timestamp; a set never lowers the
\* timestamp of its key; and a get at an instant t >= t0 + ttl, where t0 is
\* the instant of the latest set of the key, returns None however often the
\* key was read in between.
C35_NoSlidingExpiration ==
    /\ [][/\ (cache_op'.op # "set" \/ now' # now) =>
                 \A k \in DOMAIN cache' :
                     k \in DOMAIN cache /\ cache'[k] = cache[k]
          /\ \A k \in DOMAIN cache \cap DOMAIN cache' :
                 cache'[k].timestamp >= cache[k].timestamp
          /\ \A k \in DOMAIN last_set :
                 last_set'[k].timestamp >= last_set[k].timestamp]_vars
    /\ [](\A k \in served :
             /\ k \in DOMAIN cache => cache[k].timestamp = last_set[k].timestamp
             /\ (cache_op.op = "get" /\ cache_op.key = k
                   /\ cache_op.t >= last_set[k].timestamp + expiry_seconds)
                    => cache_op.ret = None)

\* A key set once, served by a get after the clock moved, and refused by a
\* get at the instant its age reached ttl.
C35_Witness ==
    /\ cache_op.op = "get"
    /\ cache_op.key \in served
    /\ first_set[cache_op.key] = last_set[cache_op.key].timestamp
    /\ cache_op.t = last_set[cache_op.key].timestamp + expiry_seconds
    /\ cache_op.ret = None
    /\ ns_ret = None

\* Both tasks have ended a call of the same kind for key k, and both missed k
\* at their lookup.
BothMissed(kind, k) ==
    \A task \in Tasks :
        /\ rc[task].at \in {"returned", "raised"}
        /\ rc[task].kind = kind
        /\ k \in rc[task].missed

\* The tasks whose call obtained a value for k and wrote it.
Wrote(k) == {task \in Tasks : rc[task].results[k] # None}

\* C31: two calls for the same key that both missed it both issue a vendor
\* call; once both have ended, the cache holds for the key nothing but the
\* value and the instant of the later of their writes, no older than any of
\* their writes, and holds it as long as it has not expired.
C31_ConsistentAfterRace ==
    /\ \A task \in Tasks :
           (rc[task].at = "api") <=>
               (rc[task].missed # {} /\ rc[task].at \notin {"returned", "raised"})
    /\ \A kind \in {"product", "batch"} :
           LET k == IF kind = "product" THEN "1" ELSE "u1"
               c == IF kind = "product" THEN product_cache ELSE link_cache
           IN BothMissed(kind, k) =>
                 /\ k \in DOMAIN c =>
                        /\ writer[k] \in Wrote(k)
                        /\ c[k] = [item |-> rc[writer[k]].results[k],
                                   timestamp |-> rc[writer[k]].t]
                        /\ \A task \in Wrote(k) : c[k].timestamp >= rc[task].t
                 /\ k \notin DOMAIN c =>
                        \A task \in Wrote(k) : now - rc[task].t >= expiry_seconds

\* Two fetches of one product that both missed and both got a record from
\* the vendor, a different one each, one tick apart: the cache holds the
\* record and the instant of the later one.
C31_Witness ==
    /\ BothMissed("product", "1")
    /\ Wrote("1") = Tasks
    /\ rc["t1"].results["1"] # rc["t2"].results["1"]
    /\ rc["t2"].t = rc["t1"].t + 1
    /\ "1" \in DOMAIN product_cache
    /\ product_cache["1"] = [item |-> rc["t2"].results["1"], timestamp |-> rc["t2"].t]

\* The step writes the link-cache entry of u.
WritesLink(u) ==
    /\ u \in DOMAIN link_cache'
    /\ u \notin DOMAIN link_cache \/ link_cache'[u] # link_cache[u]

\* C34: every write of a link-cache entry u -> l is made by a batch call
\* that had u among its input URLs and got from the vendor a pair with
\* source_value u and promotion_link l; l is truthy and the entry carries the
\* instant of the write; no entry ever holds an empty or absent link.
C34_LinkCacheIntegrity ==
    /\ [][\A u \in URLs :
              WritesLink(u) =>
                  \E task \in Tasks :
                      /\ rc[task].at = "api"
                      /\ rc'[task].at \in {"returned", "raised"}
                      /\ u \in Range(rc[task].key)
                      /\ \E i \in 1..Len(rc'[task].pairs) :
                             rc'[task].pairs[i] =
                                 Pair(JStr(u), link_cache'[u].item)
                      /\ link_cache'[u].timestamp = now]_vars
    /\ [](/\ DOMAIN link_cache \subseteq URLs
          /\ \A u \in DOMAIN link_cache : Truthy(link_cache[u].item))

\* Both URLs cached with different links by calls that ran side by side, one
\* of which raised after its write, the other having asked for both URLs.
C34_Witness ==
    /\ DOMAIN link_cache = URLs
    /\ link_cache["u1"].item # link_cache["u2"].item
    /\ rc["t1"].at = "raised"
    /\ rc["t1"].pairs # <<>>
    /\ rc["t2"].at = "returned"
    /\ rc["t2"].key = <<"u1", "u2">>
    /\ rc["t2"].missed = URLs
    /\ writer["u1"] = "t2"
    /\ writer["u2"] = "t1"


\* The call has mapped the batch result back to the offer keys.
LinksMapped == pl.generated_links # <<>>

\* The target URL the strategy of an offer built for the product of the call.
OwnUrl(offer_key) == build_urls(offer_key, pl.base_url, pl.product_id)[1]

\* The link came for this URL: from the link cache, or from a pair of the
\* vendor whose source_value is the URL.
CameFor(link, url) ==
    \/ url \in DOMAIN pl.cached /\ pl.cached[url] = link
    \/ \E i \in 1..Len(pl.pairs) : pl.pairs[i] = Pair(JStr(url), link)

\* C32: after process_product_telegram has mapped the batch result,
\* generated_links has exactly the keys of OFFER_ORDER; an offer holds a link
\* exactly when the batch result holds a link for the target URL its own
\* strategy built, and then that link, which the cache or the vendor gave for
\* that URL; no two offers share a target URL.
C32_PerOfferMapping ==
    LinksMapped =>
        /\ DOMAIN pl.generated_links = Range(OFFER_ORDER)
        /\ \A k \in Range(OFFER_ORDER) :
               LET link == LinkOf(pl.all_links_dict, OwnUrl(k))
               IN /\ (pl.generated_links[k] # None) <=> Truthy(link)
                  /\ pl.generated_links[k] # None =>
                         /\ pl.generated_links[k] = link
                         /\ CameFor(link, OwnUrl(k))
        /\ \A k1, k2 \in Range(OFFER_ORDER) :
               k1 # k2 => OwnUrl(k1) # OwnUrl(k2)

\* A mapping with an offer whose link came from the cache, an offer whose
\* link the vendor gave, with another link, and an offer without link.
C32_Witness ==
    /\ LinksMapped
    /\ \E k1, k2, k3 \in Range(OFFER_ORDER) :
           /\ Truthy(pl.cached[OwnUrl(k1)])
           /\ pl.generated_links[k1] = pl.cached[OwnUrl(k1)]
           /\ pl.cached[OwnUrl(k2)] = None
           /\ pl.generated_links[k2] # None
           /\ pl.generated_links[k2] # pl.generated_links[k1]
           /\ pl.generated_links[k3] = None


\* The scraping fallback of the call failed: it raised or gave no name.
ScrapingFailed ==
    pl.scrapes > 0 /\ (pl.scraped.kind = "raised" \/ ~Truthy(pl.scraped.name))

\* C33: the scraping fallback runs only when fetch_product_details returned
\* None, never after a record of the API or of the product cache; when it
\* raises or gives no name the product record is {source "None", title
\* "Product <id>"}, the step raises nothing, and the call has gone on to
\* request the affiliate links.
C33_MetadataFallbackChain ==
    /\ [](/\ (pl.at = "scrape" \/ pl.scrapes > 0) => pl.details = None
          /\ (pl.details # None /\ pl.info # None) =>
                 pl.scrapes = 0 /\ PyGet(pl.info, "source", None) = JStr("API")
          /\ pl.scrapes <= 1
          /\ ScrapingFailed =>
                 pl.info = NoInfo(pl.product_id) /\ pl.requested)
    /\ [][pl.at = "scrape" =>
              /\ pl'.requested
              /\ pl'.exc = ""
              /\ pl'.at \in {"batch_api", "send", "no_offers"}
              /\ LinksMapped' \/ pl'.uncached # <<>>]_vars

\* The scraper raised, and the call went on to links and to its message.
C33_Witness ==
    /\ pl.scraped.kind = "raised"
    /\ pl.info = NoInfo(pl.product_id)
    /\ pl.at = "done"
    /\ pl.success_count > 0
    /\ pl.sent = <<[kind |-> "text", text |-> pl.text, ok |-> TRUE]>>


\* C36: a call of process_product_telegram never ends with an exception:
\* whatever fails in it (the metadata, the batch links, the formatting, a
\* send, the fallback send, the error notice), the call is at its error
\* notice or has returned.
C36_NeverRaisesToJoin ==
    /\ pl.at # "raised"
    /\ pl.exc # "" => pl.at \in {"notice", "done"}
    /\ (pl.sent # <<>> /\ pl.sent[Len(pl.sent)].kind = "error notice") =>
           pl.at = "done"

\* The message, its fallback and the error notice all failed to be sent, and
\* the call has returned.
C36_Witness ==
    /\ pl.at = "done"
    /\ Len(pl.sent) = 3
    /\ pl.sent[2].kind = "fallback"
    /\ pl.sent[3].kind = "error notice"
    /\ \A i \in 1..3 : ~pl.sent[i].ok


\* The sends the call has attempted, by kind.
Attempted(kinds) == \E i \in 1..Len(pl.sent) : pl.sent[i].kind \in kinds

OffersMessageAttempted == Attempted({"photo", "text"})
NoOffersMessageAttempted == Attempted({"no offers"})

\* C39: the call attempts the offers message only when an offer has a link,
\* and the message that no offer was found only when none has; a call that
\* returned without an exception attempted the one its count selects; the
\* two are never both attempted; the offers message lists every offer of
\* OFFER_ORDER in that order, with its link or as failed.  The product record
\* takes no part in the choice.
C39_ReplySelection ==
    /\ ~(OffersMessageAttempted /\ NoOffersMessageAttempted)
    /\ OffersMessageAttempted => LinksMapped /\ pl.success_count > 0
    /\ NoOffersMessageAttempted => LinksMapped /\ pl.success_count = 0
    /\ (pl.at = "done" /\ pl.exc = "") =>
           /\ pl.success_count > 0 => OffersMessageAttempted
           /\ pl.success_count = 0 => NoOffersMessageAttempted
    /\ \A i \in 1..Len(pl.sent) :
           pl.sent[i].kind \in {"photo", "text", "fallback"} =>
               /\ Len(pl.sent[i].text.offers) = Len(OFFER_ORDER)
               /\ \A n \in 1..Len(OFFER_ORDER) :
                      LET line == pl.sent[i].text.offers[n]
                          link == pl.generated_links[OFFER_ORDER[n]]
                      IN /\ line.offer = OFFER_ORDER[n]
                         /\ line.link = IF link = None THEN JStr("failed")
                                        ELSE link

\* The API gave the record of the product with its image, no offer got a
\* link, and the call sent the message that no offer was found.
C39_Witness ==
    /\ pl.at = "done"
    /\ pl.exc = ""
    /\ PyGet(pl.info, "source", None) = JStr("API")
    /\ Truthy(PyGet(pl.info, "image_url", None))
    /\ pl.success_count = 0
    /\ pl.sent = <<[kind |-> "no offers", text |-> None, ok |-> TRUE]>>


\* C37: every run of handle_message that has shown the loading indicator
\* deletes it before it ends, whether it returns or an exception of the URL
\* preparation or of a send leaves it.
C37_LoadingAlwaysCleaned ==
    (m_pc \in {"done", "raised"} /\ loading # "none") => loading = "deleted"

\* The candidate URLs the loop has gone through.
Handled == Len(m_yield)

\* C38: the candidate URLs are gone through one at a time in the order of the
\* message: while a resolution is awaited it is the one of the URL the loop is
\* at, and every URL before it has been handled; no product task runs before
\* the last candidate URL has been handled, and the tasks made so far are
\* coroutines that have not started; tasks run, several at a time, only
\* under asyncio.gather.
C38_ResolutionPrecedesFanOut ==
    /\ m_pc \in {"loop", "resolving"} =>
           /\ m_i \in 1..Len(potential_urls)
           /\ Handled = m_i - 1
    /\ m_pc = "resolving" => NeedsResolution(potential_urls[m_i])
    /\ m_pc \in {"loop", "resolving", "prepared"} =>
           /\ Len(t_status) = Len(tasks)
           /\ \A i \in 1..Len(t_status) : t_status[i] = "created"
    /\ (\E i \in 1..Len(t_status) : t_status[i] # "created") =>
           /\ m_pc \in {"gather", "done"}
           /\ Handled = Len(potential_urls)

\* A task was made for the first URL, and is not running while the
\* resolution of the short link after it is awaited.
C38_Witness ==
    /\ m_pc = "resolving"
    /\ m_i = 2
    /\ t_status = <<"created">>

====
